---- MODULE Spec2Model ----
(***************************************************************************)
(* Startup orchestration of the desktop shell (frontend/src-tauri):        *)
(*   startup.rs     ExponentialBackoff (retry delays)                      *)
(*   port_utils.rs  validate_port / find_available_port                    *)
(*   database.rs    PostgresManager (spawn, stop, force-kill)              *)
(*   config.rs      ServiceConfig (the last-known-good cache file)         *)
(*   lib.rs         the orchestrator (start_services, restarts, shutdown)  *)
(* Each component is a state machine of its own; a component's             *)
(* specification keeps the other components' variables at rest.            *)
(***************************************************************************)
EXTENDS Integers, Sequences, FiniteSets, TLC

VARIABLES
    \* ---- startup.rs: ExponentialBackoff
    config,             \* StartupConfig held by the backoff (immutable)
    current_attempt,    \* ExponentialBackoff.current_attempt
    current_delay_ms,   \* ExponentialBackoff.current_delay_ms
    delays,             \* results of the next_delay calls since new / the last reset
    resets,             \* number of reset calls so far
    callsBeforeReset,   \* number of next_delay calls that preceded the last reset
    \* ---- port_utils.rs: the OS socket table and the last call made
    inUse,              \* ports another process is listening on
    canBindLow,         \* whether the OS lets this process bind ports below 1024
    portCall,           \* the last validate_port / find_available_port call and its result
    \* ---- database.rs: PostgresManager and the processes around it
    process,            \* PostgresManager.process: <<>> (None) or <<child>>
    pg_ctl_exists,      \* whether bin_dir/pg_ctl exists
    alive,              \* children spawned by the manager that are still running
    dataDirOwner,       \* the live child holding the data directory's postmaster.pid, or 0
    spawned,            \* number of children spawned so far
    stopLog,            \* one entry per stop call since the last spawn
    \* ---- lib.rs: AppState
    backend_process,    \* AppState.backend_process: <<>> (None) or <<pid>>
    backend_port,       \* AppState.backend_port
    postgres_port,      \* AppState.postgres_port
    is_backend_ready,   \* AppState.is_backend_ready
    is_postgres_ready,  \* AppState.is_postgres_ready
    postgres_manager,   \* AppState.postgres_manager: <<>> (None) or <<manager>>
    startup_metrics,    \* AppState.startup_metrics
    service_config,     \* AppState.service_config: <<>> (None) or <<ServiceConfig>>
    \* ---- lib.rs: what the orchestrator works on
    managers,           \* the PostgresManager each start_services run creates
    children,           \* the child processes (database, backend) still running
    cacheFile,          \* app_data_dir/service-config.json
    events,             \* the startup events emitted so far, in order, by run
    task,               \* the position and locals of each orchestrator task
    runs,               \* number of start_services runs begun so far
    env,                \* what is installed on the machine (does not change)
    shutdowns,          \* the shutdown_services calls so far, by trigger; what the last one did
    \* ---- database.rs, lib.rs: a readiness wait taken by itself
    wait,               \* the wait under way: its clock, its interval, its result
    \* ---- lib.rs, database.rs: the mutexes
    held,               \* for each mutex, the thread holding its guard, or "free"
    thread              \* what each thread runs and the instruction it is at

backoffVars == <<config, current_attempt, current_delay_ms, delays, resets, callsBeforeReset>>
portVars    == <<inUse, canBindLow, portCall>>
managerVars == <<process, pg_ctl_exists, alive, dataDirOwner, spawned, stopLog>>
appVars     == <<backend_process, backend_port, postgres_port, is_backend_ready,
                 is_postgres_ready, postgres_manager, startup_metrics, service_config>>
orchVars    == <<appVars, managers, children, cacheFile, events, task, runs, env, shutdowns>>
waitVars    == <<wait>>
lockVars    == <<held, thread>>
vars        == <<backoffVars, portVars, managerVars, orchVars, waitVars, lockVars>>

Min(a, b) == IF a <= b THEN a ELSE b

\* Option<T>: None is the empty tuple, Some(x) the one-element tuple.
None    == <<>>
Some(x) == <<x>>

(***************************************************************************)
(* startup.rs: ExponentialBackoff                                          *)
(***************************************************************************)

\* Bounds of the policies and of the call sequences explored.
MaxAttempts == 5
MaxCalls    == 7
MaxResets   == 2

\* backoff_multiplier is an f64; the model draws it from ratios <<num, den>>
\* that f64 represents exactly (1.0, 2.0, 1.5, 0.5).
Multipliers   == {<<1, 1>>, <<2, 1>>, <<3, 2>>, <<1, 2>>}
InitialDelays == {1, 3, 100}
MaxDelays     == {2, 10, 1000}

StartupConfigs ==
    [initial_delay_ms : InitialDelays, max_delay_ms : MaxDelays,
     backoff_multiplier : Multipliers, max_attempts : 0..MaxAttempts]

\* (current_delay_ms as f64 * multiplier).min(max_delay_ms as f64) as u64:
\* the product is capped, and the cast truncates toward zero.
GrowDelayUncapped(delay, cfg) ==
    (delay * cfg.backoff_multiplier[1]) \div cfg.backoff_multiplier[2]

GrowDelay(delay, cfg) ==
    Min((delay * cfg.backoff_multiplier[1]) \div cfg.backoff_multiplier[2],
        cfg.max_delay_ms)

\* ExponentialBackoff::new
ExponentialBackoff_new(cfg) ==
    /\ config = cfg
    /\ current_delay_ms = cfg.initial_delay_ms
    /\ current_attempt = 0

BackoffInit ==
    /\ \E cfg \in StartupConfigs : ExponentialBackoff_new(cfg)
    /\ delays = <<>>
    /\ resets = 0
    /\ callsBeforeReset = 0

\* ExponentialBackoff::next_delay: None once max_attempts delays were handed
\* out; otherwise the current delay, after which the attempt is counted and
\* the delay grown.
next_delay ==
    /\ Len(delays) < MaxCalls
    /\ IF current_attempt >= config.max_attempts
         THEN /\ delays' = Append(delays, None)
              /\ UNCHANGED <<current_attempt, current_delay_ms>>
         ELSE /\ delays' = Append(delays, Some(current_delay_ms))
              /\ current_attempt' = current_attempt + 1
              /\ current_delay_ms' = GrowDelay(current_delay_ms, config)
    /\ UNCHANGED <<config, resets, callsBeforeReset>>
    /\ UNCHANGED <<portVars, managerVars, orchVars, waitVars, lockVars>>

\* The delay reset restores.
ResetDelayKept(cfg, delay) == delay

ResetDelay(cfg, delay) == cfg.initial_delay_ms

\* ExponentialBackoff::reset
reset ==
    /\ resets < MaxResets
    /\ current_attempt' = 0
    /\ current_delay_ms' = ResetDelay(config, current_delay_ms)
    /\ resets' = resets + 1
    /\ callsBeforeReset' = Len(delays)
    /\ delays' = <<>>
    /\ UNCHANGED config
    /\ UNCHANGED <<portVars, managerVars, orchVars, waitVars, lockVars>>

BackoffIdle ==
    /\ config = [initial_delay_ms |-> 500, max_delay_ms |-> 10000,
                 backoff_multiplier |-> <<2, 1>>, max_attempts |-> 10]
    /\ current_attempt = 0
    /\ current_delay_ms = 500
    /\ delays = <<>>
    /\ resets = 0
    /\ callsBeforeReset = 0

BackoffNext == next_delay \/ reset

(***************************************************************************)
(* port_utils.rs: validate_port, find_available_port                       *)
(***************************************************************************)

\* u16::MAX, where saturating_add stops, and the first unreserved port.
PortMax       == 65535
ReservedLimit == 1024

\* Bound on the max_attempts passed to find_available_port.
MaxProbes == 3

\* The ports of which the calls and the socket table are drawn: 0, reserved
\* ports, the ports around the reserved limit and those below the ceiling.
Ports == {0, 80, 1023, 1024, 1025, 65534, 65535}

\* TcpListener::bind(("127.0.0.1", port)).is_ok(). Binding port 0 asks the
\* OS for any free port and succeeds; a port below 1024 binds only where the
\* OS lets this process; any port binds only while nobody listens on it.
is_port_available(port) ==
    \/ port = 0
    \/ /\ port \notin inUse
       /\ (port >= ReservedLimit \/ canBindLow)

\* u16::saturating_add, and the wrapping sum it replaces.
wrapping_add(a, b) == (a + b) % (PortMax + 1)

saturating_add(a, b) == Min(a + b, PortMax)

\* The offsets of `for offset in 0..max_attempts`, and those of the
\* inclusive range `0..=max_attempts`.
ProbeOffsetsInclusive(max_attempts) == 0..max_attempts

ProbeOffsets(max_attempts) == 0..(max_attempts - 1)

\* The loop of find_available_port from `offset` on: the result and the
\* ports bound on the way.
RECURSIVE FindLoop(_, _, _)
FindLoop(start_port, offset, max_attempts) ==
    IF offset \notin ProbeOffsets(max_attempts)
      THEN [result |-> None, probed |-> <<>>]
      ELSE LET port == saturating_add(start_port, offset)
           IN  IF is_port_available(port)
                 THEN [result |-> Some(port), probed |-> <<port>>]
                 ELSE LET rest == FindLoop(start_port, offset + 1, max_attempts)
                      IN  [result |-> rest.result, probed |-> <<port>> \o rest.probed]

\* validate_port without the port == 0 check, and without the port < 1024
\* check.
PortStatusNoZeroCheck(port) ==
    IF port < ReservedLimit THEN [status |-> "Reserved", probed |-> <<>>]
    ELSE IF is_port_available(port) THEN [status |-> "Available", probed |-> <<port>>]
    ELSE [status |-> "InUse", probed |-> <<port>>]

PortStatusNoReservedCheck(port) ==
    IF port = 0 THEN [status |-> "Invalid", probed |-> <<>>]
    ELSE IF is_port_available(port) THEN [status |-> "Available", probed |-> <<port>>]
    ELSE [status |-> "InUse", probed |-> <<port>>]

\* validate_port: the PortStatus and the ports it bound to find out.
PortStatus(port) ==
    IF port = 0 THEN [status |-> "Invalid", probed |-> <<>>]
    ELSE IF port < ReservedLimit THEN [status |-> "Reserved", probed |-> <<>>]
    ELSE IF is_port_available(port) THEN [status |-> "Available", probed |-> <<port>>]
    ELSE [status |-> "InUse", probed |-> <<port>>]

\* The number of ports find_available_port is asked to try.
FindRange == 10

\* `a + b` on u16: a sum above u16::MAX panics in a build with overflow
\* checks (debug) and wraps in one without (release).
add_u16(a, b, overflow_checks) ==
    IF a + b <= PortMax THEN [panic |-> FALSE, value |-> a + b]
    ELSE IF overflow_checks THEN [panic |-> TRUE, value |-> 0]
    ELSE [panic |-> FALSE, value |-> wrapping_add(a, b)]

\* The port conflict handling of start_postgres_internal and of
\* start_backend_internal (lib.rs 534-556, 621-646) in a build with or
\* without overflow checks: the port itself when it can be bound, else the
\* first of the FindRange ports from `port + 1` on that can, else the error,
\* whose message holds `port + 1` and `port + 10`.
ConflictHandling(port, overflow_checks) ==
    IF is_port_available(port)
      THEN [outcome |-> "Ok", port |-> port, conflict |-> FALSE]
      ELSE LET first == add_u16(port, 1, overflow_checks)
               last  == add_u16(port, 10, overflow_checks)
               found == FindLoop(first.value, 0, FindRange).result
           IN  IF first.panic
                 THEN [outcome |-> "Panic", port |-> port, conflict |-> TRUE]
               ELSE IF found # None
                 THEN [outcome |-> "Ok", port |-> found[1], conflict |-> TRUE]
               ELSE IF last.panic
                 THEN [outcome |-> "Panic", port |-> port, conflict |-> TRUE]
               ELSE [outcome |-> "Err", port |-> port, conflict |-> TRUE]

\* PostgresManager::ensure_port_available (database.rs 89-139) on a manager
\* configured for `port`: validate_port, and for a port in use the search
\* from `current_port + 1`; the message of the error holds
\* `current_port + 1` and `current_port + 10`.
EnsurePort(port, overflow_checks) ==
    LET status == PortStatus(port).status
        first  == add_u16(port, 1, overflow_checks)
        last   == add_u16(port, 10, overflow_checks)
        found  == FindLoop(first.value, 0, FindRange).result
    IN  IF status = "Available" THEN [outcome |-> "Ok", port |-> port]
        ELSE IF status # "InUse" THEN [outcome |-> "Err", port |-> port]
        ELSE IF first.panic THEN [outcome |-> "Panic", port |-> port]
        ELSE IF found # None THEN [outcome |-> "Ok", port |-> found[1]]
        ELSE IF last.panic THEN [outcome |-> "Panic", port |-> port]
        ELSE [outcome |-> "Err", port |-> port]

\* No call made yet.
NoPortCall ==
    [op |-> "none", port |-> 0, max_attempts |-> 0, status |-> "none",
     result |-> None, probed |-> <<>>]

PortsInit ==
    /\ inUse \in SUBSET (Ports \ {0})
    /\ canBindLow \in BOOLEAN
    /\ portCall = NoPortCall

\* validate_port(port)
validate_port ==
    /\ \E port \in Ports :
         LET r == PortStatus(port)
         IN  portCall' = [op |-> "validate_port", port |-> port, max_attempts |-> 0,
                          status |-> r.status, result |-> None, probed |-> r.probed]
    /\ UNCHANGED <<inUse, canBindLow>>
    /\ UNCHANGED <<backoffVars, managerVars, orchVars, waitVars, lockVars>>

\* find_available_port(start_port, max_attempts)
find_available_port ==
    /\ \E start_port \in Ports, max_attempts \in 0..MaxProbes :
         LET r == FindLoop(start_port, 0, max_attempts)
         IN  portCall' = [op |-> "find_available_port", port |-> start_port,
                          max_attempts |-> max_attempts, status |-> "none",
                          result |-> r.result, probed |-> r.probed]
    /\ UNCHANGED <<inUse, canBindLow>>
    /\ UNCHANGED <<backoffVars, managerVars, orchVars, waitVars, lockVars>>

\* The port conflict handling of the orchestrator, and that of the manager,
\* for a wanted port, in a debug or a release build.
resolve_conflict ==
    /\ \E port \in Ports, overflow_checks \in BOOLEAN :
         LET r == ConflictHandling(port, overflow_checks)
         IN  portCall' = [op |-> "resolve_conflict", port |-> port,
                          max_attempts |-> FindRange, status |-> r.outcome,
                          result |-> IF r.outcome = "Ok" THEN Some(r.port) ELSE None,
                          probed |-> <<>>]
    /\ UNCHANGED <<inUse, canBindLow>>
    /\ UNCHANGED <<backoffVars, managerVars, orchVars, waitVars, lockVars>>

ensure_port_available_call ==
    /\ \E port \in Ports, overflow_checks \in BOOLEAN :
         LET r == EnsurePort(port, overflow_checks)
         IN  portCall' = [op |-> "ensure_port_available", port |-> port,
                          max_attempts |-> FindRange, status |-> r.outcome,
                          result |-> IF r.outcome = "Ok" THEN Some(r.port) ELSE None,
                          probed |-> <<>>]
    /\ UNCHANGED <<inUse, canBindLow>>
    /\ UNCHANGED <<backoffVars, managerVars, orchVars, waitVars, lockVars>>

\* Another process starts or stops listening on a port between two calls;
\* the result of the last call says nothing about the new table.
SocketTableChanges ==
    /\ \E port \in Ports \ {0} :
         inUse' = IF port \in inUse THEN inUse \ {port} ELSE inUse \cup {port}
    /\ portCall' = NoPortCall
    /\ UNCHANGED canBindLow
    /\ UNCHANGED <<backoffVars, managerVars, orchVars, waitVars, lockVars>>

PortsNext ==
    \/ validate_port
    \/ find_available_port
    \/ resolve_conflict
    \/ ensure_port_available_call
    \/ SocketTableChanges

(***************************************************************************)
(* database.rs: PostgresManager (attempt_start, stop)                      *)
(***************************************************************************)

\* Bounds on the children spawned and on the stop calls recorded.
MaxSpawns == 2
MaxStops  == 4

\* A PostgreSQL server on the data directory that this manager did not
\* spawn (left over from an earlier run of the application); an id no
\* child gets.
Foreign == MaxSpawns + 1

ManagerInit ==
    /\ process = None
    /\ pg_ctl_exists \in BOOLEAN
    /\ alive = {}
    /\ dataDirOwner \in {0, Foreign}
    /\ spawned = 0
    /\ stopLog = <<>>

\* attempt_start: Command::spawn either fails (StartFailed, nothing changes)
\* or yields a running child, whose handle replaces self.process.
attempt_start ==
    /\ spawned < MaxSpawns
    /\ \E spawn_ok \in BOOLEAN :
         IF spawn_ok
           THEN /\ spawned' = spawned + 1
                /\ alive' = alive \cup {spawned + 1}
                /\ process' = Some(spawned + 1)
           ELSE UNCHANGED <<spawned, alive, process>>
    /\ UNCHANGED <<pg_ctl_exists, dataDirOwner, stopLog>>
    /\ UNCHANGED <<backoffVars, portVars, orchVars, waitVars, lockVars>>

\* A running child takes the data directory (writes postmaster.pid) when no
\* other server holds it.
ChildLocksDataDir ==
    /\ dataDirOwner = 0
    /\ \E child \in alive : dataDirOwner' = child
    /\ UNCHANGED <<process, pg_ctl_exists, alive, spawned, stopLog>>
    /\ UNCHANGED <<backoffVars, portVars, orchVars, waitVars, lockVars>>

\* A child exits by itself (a crash, or the data directory is held by
\* another server).
ChildExits ==
    /\ \E child \in alive :
         /\ alive' = alive \ {child}
         /\ dataDirOwner' = IF dataDirOwner = child THEN 0 ELSE dataDirOwner
    /\ UNCHANGED <<process, pg_ctl_exists, spawned, stopLog>>
    /\ UNCHANGED <<backoffVars, portVars, orchVars, waitVars, lockVars>>

\* The result of stop's fallback (after the graceful shutdown did not
\* succeed): the child of the handle, if any, is killed, and a failed kill
\* is the error of stop. The first one errs when there is nothing to kill.
FallbackResultNoHandleErr(handle, kill_ok) ==
    IF handle = None THEN "Err" ELSE IF kill_ok THEN "Ok" ELSE "Err"

FallbackResult(handle, kill_ok) ==
    IF handle = None THEN "Ok" ELSE IF kill_ok THEN "Ok" ELSE "Err"

StopEntry(result, liveAfter) ==
    [handle |-> process, aliveBefore |-> alive, spawnedAt |-> spawned,
     result |-> result, liveAfter |-> liveAfter]

\* PostgresManager::stop. `graceful`: pg_ctl exists, ran and reported
\* success, which takes a server running on the data directory; pg_ctl
\* fails when there is none, and may fail (or time out) when there is one.
\* `kill_ok`: the result of Child::kill in the fallback.
stop ==
    /\ Len(stopLog) < MaxStops
    /\ \E graceful \in BOOLEAN, kill_ok \in BOOLEAN :
         /\ graceful => (pg_ctl_exists /\ dataDirOwner # 0)
         /\ IF graceful
              THEN /\ alive' = alive \ {dataDirOwner}
                   /\ dataDirOwner' = 0
                   /\ process' = None
                   /\ stopLog' = Append(stopLog, StopEntry("Ok", alive \ {dataDirOwner}))
              ELSE LET killed == IF process # None /\ kill_ok THEN {process[1]} ELSE {}
                   IN  /\ process' = None
                       /\ alive' = alive \ killed
                       /\ dataDirOwner' = IF dataDirOwner \in killed THEN 0 ELSE dataDirOwner
                       /\ stopLog' = Append(stopLog,
                                        StopEntry(FallbackResult(process, kill_ok),
                                                  alive \ killed))
    /\ UNCHANGED <<pg_ctl_exists, spawned>>
    /\ UNCHANGED <<backoffVars, portVars, orchVars, waitVars, lockVars>>

ManagerNext == attempt_start \/ ChildLocksDataDir \/ ChildExits \/ stop

(***************************************************************************)
(* config.rs: ServiceConfig and its cache file                             *)
(***************************************************************************)

DefaultPostgresPort == 5433
DefaultBackendPort  == 5001
SchemaVersion       == 1

\* ServiceConfig::default
ServiceConfig_default ==
    [postgres_port |-> DefaultPostgresPort, backend_port |-> DefaultBackendPort,
     last_successful_startup |-> None, schema_version |-> SchemaVersion]

\* A cache file: whether the path exists, whether read_to_string succeeds on
\* it, whether its text is JSON, whether that JSON has the fields of a
\* ServiceConfig (each of the right type), and the value it then holds.
File(exists, readable, json, shape, value) ==
    [exists |-> exists, readable |-> readable, json |-> json, shape |-> shape,
     value |-> value]

MissingFile == File(FALSE, FALSE, FALSE, FALSE, ServiceConfig_default)

\* serde_json::from_str::<ServiceConfig>: the value, or nothing when the text
\* is not JSON or is JSON of another shape.
from_str(file) == IF file.json /\ file.shape THEN Some(file.value) ELSE None

\* serde_json::to_string_pretty followed by the atomic write: the file a
\* successful save leaves behind.
Written(cfg) == File(TRUE, TRUE, TRUE, TRUE, cfg)

\* ServiceConfig::load without the schema_version comparison.
loadAnySchema(file) ==
    IF ~file.exists THEN ServiceConfig_default
    ELSE IF ~file.readable THEN ServiceConfig_default
    ELSE IF from_str(file) = None THEN ServiceConfig_default
    ELSE from_str(file)[1]

\* ServiceConfig::load
load(file) ==
    IF ~file.exists THEN ServiceConfig_default
    ELSE IF ~file.readable THEN ServiceConfig_default
    ELSE IF from_str(file) = None THEN ServiceConfig_default
    ELSE IF from_str(file)[1].schema_version # SchemaVersion THEN ServiceConfig_default
    ELSE from_str(file)[1]

\* ServiceConfig::mark_successful_startup; now is the time of the call.
mark_successful_startup(cfg, pg_port, be_port, now) ==
    [cfg EXCEPT !.postgres_port = pg_port, !.backend_port = be_port,
                !.last_successful_startup = Some(now)]

\* ServiceConfig::save: the temporary file is renamed over the cache file
\* only when every step before succeeded; a failed step leaves the cache
\* file as it was.
save(file, cfg, write_ok) ==
    IF write_ok THEN [file |-> Written(cfg), result |-> "Ok"]
    ELSE [file |-> file, result |-> "Err"]

\* A configuration as stored by an earlier session.
Stored(pg_port, be_port, version) ==
    [postgres_port |-> pg_port, backend_port |-> be_port,
     last_successful_startup |-> Some(0), schema_version |-> version]

\* The cache files a session can find: none, an unreadable one, ones that
\* hold no ServiceConfig, ones stored by an earlier session, and well-formed
\* ones whose database port is 0 or a reserved port.
CacheFiles ==
    { MissingFile,
      File(TRUE, FALSE, FALSE, FALSE, ServiceConfig_default),
      File(TRUE, TRUE, FALSE, FALSE, ServiceConfig_default),
      File(TRUE, TRUE, TRUE, FALSE, ServiceConfig_default),
      File(TRUE, TRUE, TRUE, TRUE, Stored(5433, 5001, 1)),
      File(TRUE, TRUE, TRUE, TRUE, Stored(5436, 5002, 1)),
      File(TRUE, TRUE, TRUE, TRUE, Stored(5436, 5002, 2)),
      File(TRUE, TRUE, TRUE, TRUE, Stored(0, 5001, 1)),
      File(TRUE, TRUE, TRUE, TRUE, Stored(80, 5001, 1)) }

(***************************************************************************)
(* lib.rs: the orchestrator. start_services_internal, one step per stretch *)
(* of code between two waits on something outside the process              *)
(***************************************************************************)

\* Bounds: the start_services runs begun, and the readiness probes a wait
\* makes before its time is up (timeout / probe interval).
MaxRuns  == 2
MaxPolls == 2

\* The StartupConfig start_postgres_internal builds.
PostgresStartupConfig ==
    [initial_delay_ms |-> 500, max_delay_ms |-> 5000,
     backoff_multiplier |-> <<3, 2>>, max_attempts |-> 5, timeout_secs |-> 60]

\* The task spawned at launch, and the task of a command the frontend invokes.
Tasks == {"startup", "command"}

\* A task at `pc` with nothing done yet. op: the entry point it runs; run:
\* the number of its start_services run (0: none); port: the local
\* postgres_port / backend_port of start_services_internal; be_port: the
\* local backend_port of start_backend_internal; attempt, delay: the
\* ExponentialBackoff of start_with_retry; polls: probes made by the wait it
\* is in; spawns, failed: database spawn attempts made and attempts failed
\* in the run; be_spawns: backend children spawned by the task; loadedFrom:
\* the cache file ServiceConfig::load read; marked: whether the metrics
\* were complete when all-ready was emitted; saved: the result of
\* ServiceConfig::save; result, error: what it returned.
TaskAt(pc) ==
    [pc |-> pc, op |-> "none", run |-> 0, port |-> 0, be_port |-> 0,
     attempt |-> 0, delay |-> 0,
     polls |-> 0, spawns |-> 0, failed |-> 0, be_spawns |-> 0,
     loadedFrom |-> MissingFile, marked |-> FALSE,
     saved |-> "none", result |-> "none", error |-> "none"]

\* StartupMetrics::new
StartupMetrics_new ==
    [postgres_startup_ms |-> FALSE, backend_startup_ms |-> FALSE,
     total_startup_ms |-> FALSE, postgres_retry_count |-> 0,
     backend_retry_count |-> 0, postgres_port |-> None, backend_port |-> None,
     success |-> FALSE, error |-> None]

\* StartupMetrics::mark_postgres_started (the duration is kept as "set").
mark_postgres_started(m, port, retries) ==
    [m EXCEPT !.postgres_startup_ms = TRUE, !.postgres_port = Some(port),
              !.postgres_retry_count = retries]

\* StartupMetrics::mark_backend_started
mark_backend_started(m, port, retries) ==
    [m EXCEPT !.backend_startup_ms = TRUE, !.backend_port = Some(port),
              !.backend_retry_count = retries]

\* mark_complete that leaves the run unfinished.
mark_complete_unset(m) == [m EXCEPT !.total_startup_ms = TRUE]

\* StartupMetrics::mark_complete
mark_complete(m) == [m EXCEPT !.total_startup_ms = TRUE, !.success = TRUE]

\* mark_failed that keeps no error.
mark_failed_unrecorded(m, error) == [m EXCEPT !.success = FALSE]

\* StartupMetrics::mark_failed
mark_failed(m, error) == [m EXCEPT !.success = FALSE, !.error = Some(error)]

\* A PostgresManager not yet constructed.
NoManager == [port |-> 0, process |-> None, initialized |-> FALSE]

\* A StartupEvent handed to emit by run `run` (0: outside any run).
Ev(run, name, port) == [run |-> run, name |-> name, port |-> port]

\* The events after run `run` has emitted `evs`.
Emit(run, evs) == [events EXCEPT ![run] = @ \o evs]

\* The ports something listens on: other programs' and the children's.
Listening(cs) == env.foreign_ports \cup {c.port : c \in cs}

\* The process ids in use: of running children and of handles still held.
UsedPids ==
    {c.pid : c \in children}
      \cup {backend_process[i] : i \in DOMAIN backend_process}
      \cup UNION {{managers[m].process[i] : i \in DOMAIN managers[m].process} :
                  m \in DOMAIN managers}

\* The process id the OS gives the next child.
NewPid == CHOOSE n \in 1..(Cardinality(UsedPids) + 1) :
              /\ n \notin UsedPids
              /\ \A k \in 1..(n - 1) : k \in UsedPids

\* The children left when process `pid` is gone.
Without(cs, pid) == {c \in cs : c.pid # pid}

\* The port conflict handling that keeps the requested port.
ResolvePortKept(port) ==
    [ok |-> TRUE, port |-> port, conflict |-> ~is_port_available(port)]

\* The port conflict handling that searches one port further.
ResolvePortBeyond(port) ==
    IF is_port_available(port)
      THEN [ok |-> TRUE, port |-> port, conflict |-> FALSE]
      ELSE LET found == FindLoop(port + 1, 0, FindRange + 1).result
           IN  IF found # None
                 THEN [ok |-> TRUE, port |-> found[1], conflict |-> TRUE]
                 ELSE [ok |-> FALSE, port |-> port, conflict |-> TRUE]

\* The port conflict handling of start_postgres_internal and of
\* start_backend_internal as the orchestrator's tasks run it (the ports
\* they handle stay far below u16::MAX, where the build makes no
\* difference): the port itself when it can be bound, else the first of the
\* FindRange ports above it that can, else failure.
ResolvePort(port) ==
    LET r == ConflictHandling(port, FALSE)
    IN  [ok |-> r.outcome = "Ok", port |-> r.port, conflict |-> r.conflict]

\* PostgresManager::ensure_port_available on a manager configured for `port`.
ensure_port_available(port) ==
    LET r == EnsurePort(port, FALSE)
    IN  [ok |-> r.outcome = "Ok", port |-> r.port]

\* PostgresManager::is_running for a manager configured for `port`: pg_isready
\* reports a server accepting connections there.
is_running(port) ==
    /\ env.pg_isready_exists
    /\ \E c \in children : c.kind = "postgres" /\ c.port = port /\ c.pid = dataDirOwner

\* The choices PostgresManager::stop has: whether pg_ctl stops a server
\* (there must be one on the data directory), and whether the fallback's
\* Child::kill succeeds.
GracefulOn(owner) == IF pg_ctl_exists /\ owner # 0 THEN BOOLEAN ELSE {FALSE}
GracefulChoices   == GracefulOn(dataDirOwner)
KillChoices(m)    == IF managers[m].process # None THEN BOOLEAN ELSE {TRUE}

\* PostgresManager::stop, as in `stop` above, on a manager holding `handle`
\* when the children are `cs` and `owner` holds the data directory: the
\* children left, the owner of the data directory left, and the result.
StopOn(cs, owner, handle, graceful, kill_ok) ==
    IF graceful
      THEN [children |-> Without(cs, owner), owner |-> 0, result |-> "Ok"]
      ELSE LET killed == IF handle # None /\ kill_ok THEN {handle[1]} ELSE {}
           IN  [children |-> {c \in cs : c.pid \notin killed},
                owner    |-> IF owner \in killed THEN 0 ELSE owner,
                result   |-> FallbackResult(handle, kill_ok)]

StopManager(m, graceful, kill_ok) ==
    StopOn(children, dataDirOwner, managers[m].process, graceful, kill_ok)

\* The variables no orchestrator step changes.
fixedVars == <<backoffVars, canBindLow, portCall, process, pg_ctl_exists, alive,
               spawned, stopLog, env, waitVars, lockVars>>

\* The failure branch without its return: the run goes on to the end of
\* start_services_internal.
FailRunNoReturn(t, rec, failed, error, before) ==
    /\ events' = Emit(rec.run, before \o << Ev(rec.run, failed, rec.port),
                                              Ev(rec.run, "StartupFailed", 0) >>)
    /\ startup_metrics' = mark_failed(startup_metrics, error)
    /\ task' = [task EXCEPT ![t] =
                  [rec EXCEPT !.pc = "complete", !.result = "Err", !.error = error]]

\* The failure branch of start_services_internal: the service's event
\* `failed`, mark_failed, startup-failed, and the error returned. `rec`: the
\* task's locals at the failure; `before`: the events the failing call
\* emitted first.
FailRunFrom(t, rec, failed, error, before) ==
    /\ events' = Emit(rec.run, before \o << Ev(rec.run, failed, rec.port),
                                              Ev(rec.run, "StartupFailed", 0) >>)
    /\ startup_metrics' = mark_failed(startup_metrics, error)
    /\ task' = [task EXCEPT ![t] =
                  [rec EXCEPT !.pc = "done", !.result = "Err", !.error = error]]

FailRun(t, failed, error, before) == FailRunFrom(t, task[t], failed, error, before)

\* start_services_internal up to the call of start_postgres_internal
\* (lib.rs 407-436): fresh metrics, the cached configuration and its ports
\* where they can be bound, then postgres-starting.
StartServices(t) ==
    /\ task[t].pc = "start"
    /\ runs < MaxRuns
    /\ LET cached  == load(cacheFile)
           pg_port == IF is_port_available(cached.postgres_port)
                        THEN cached.postgres_port ELSE postgres_port
           be_port == IF is_port_available(cached.backend_port)
                        THEN cached.backend_port ELSE backend_port
       IN  /\ startup_metrics' = StartupMetrics_new
           /\ postgres_port' = pg_port
           /\ backend_port' = be_port
           /\ service_config' = Some(cached)
           /\ runs' = runs + 1
           /\ events' = Emit(runs + 1, <<Ev(runs + 1, "PostgresStarting", pg_port)>>)
           /\ task' = [task EXCEPT ![t] =
                         [TaskAt("pg_resolve") EXCEPT
                            !.op = IF task[t].op = "none" THEN "start_services"
                                   ELSE task[t].op,
                            !.run = runs + 1, !.port = pg_port,
                            !.loadedFrom = cacheFile]]
    /\ UNCHANGED <<backend_process, is_backend_ready, is_postgres_ready,
                   postgres_manager, managers, children, cacheFile, shutdowns,
                   inUse, dataDirOwner>>
    /\ UNCHANGED fixedVars

\* A PostgresManager that was never stored is dropped when its function
\* returns an error, and Drop calls stop.
DropManager(m, graceful, kill_ok) ==
    LET s == StopManager(m, graceful, kill_ok)
    IN  /\ children' = s.children
        /\ dataDirOwner' = s.owner
        /\ inUse' = Listening(s.children)
        /\ managers' = [managers EXCEPT ![m].process = None]

\* start_postgres_internal up to manager.start() (lib.rs 530-599): the port
\* conflict handling, the manager, init_database.
PgResolve(t) ==
    /\ task[t].pc = "pg_resolve"
    /\ LET r        == ResolvePort(postgres_port)
           m        == task[t].run
           conflict == IF r.conflict
                         THEN <<Ev(m, "PortConflict", postgres_port)>> ELSE <<>>
       IN  IF ~r.ok
             THEN /\ FailRun(t, "PostgresFailed", "PortInUse", conflict)
                  /\ UNCHANGED <<postgres_port, managers, children, dataDirOwner, inUse>>
             ELSE /\ postgres_port' = r.port
                  /\ \E init_ok \in BOOLEAN :
                       IF init_ok
                         THEN /\ managers' = [managers EXCEPT ![m] =
                                    [port |-> r.port, process |-> None,
                                     initialized |-> TRUE]]
                              /\ events' = Emit(task[t].run, conflict)
                              /\ task' = [task EXCEPT ![t].pc = "pg_start"]
                              /\ UNCHANGED <<startup_metrics, children, dataDirOwner,
                                             inUse>>
                         ELSE /\ FailRun(t, "PostgresFailed", "InitFailed", conflict)
                              /\ \E graceful \in GracefulChoices :
                                   DropManager(m, graceful, TRUE)
    /\ UNCHANGED <<backend_process, backend_port, is_backend_ready, is_postgres_ready,
                   postgres_manager, service_config, cacheFile, runs, shutdowns>>
    /\ UNCHANGED fixedVars

\* A start that is let through whatever the manager's state.
StartRefusedNever(mgr) == FALSE

\* The first check of start_with_retry (database.rs 323-325): a manager
\* whose init_database has not succeeded is refused.
StartRefused(mgr) == ~mgr.initialized

\* start_with_retry before its loop (database.rs 323-347).
PgStart(t) ==
    /\ task[t].pc = "pg_start"
    /\ LET m == task[t].run
           r == ensure_port_available(managers[m].port)
       IN  IF StartRefused(managers[m])
             THEN /\ FailRun(t, "PostgresFailed", "NotInitialized", <<>>)
                  /\ \E graceful \in GracefulChoices : DropManager(m, graceful, TRUE)
           ELSE IF ~r.ok
             THEN /\ FailRun(t, "PostgresFailed", "PortConflict", <<>>)
                  /\ \E graceful \in GracefulChoices : DropManager(m, graceful, TRUE)
           ELSE IF is_running(r.port)
             THEN /\ managers' = [managers EXCEPT ![m].port = r.port]
                  /\ task' = [task EXCEPT ![t].pc = "pg_store"]
                  /\ UNCHANGED <<events, startup_metrics, children, dataDirOwner, inUse>>
           ELSE IF ~env.postgres_exists
             THEN /\ FailRun(t, "PostgresFailed", "BinaryNotFound", <<>>)
                  /\ \E graceful \in GracefulChoices : DropManager(m, graceful, TRUE)
           ELSE /\ managers' = [managers EXCEPT ![m].port = r.port]
                /\ task' = [task EXCEPT ![t].pc = "pg_spawn",
                                        ![t].attempt = 0,
                                        ![t].delay = PostgresStartupConfig.initial_delay_ms]
                /\ UNCHANGED <<events, startup_metrics, children, dataDirOwner, inUse>>
    /\ UNCHANGED <<backend_process, backend_port, postgres_port, is_backend_ready,
                   is_postgres_ready, postgres_manager, service_config, cacheFile,
                   runs, shutdowns>>
    /\ UNCHANGED fixedVars

\* ExponentialBackoff::next_delay on the backoff of start_with_retry, as
\* `next_delay` above: the delay handed out (None once max_attempts were),
\* and the attempt count and delay it leaves. The first one does not count
\* the attempt.
NextDelayUncounted(attempt, delay, cfg) ==
    IF attempt >= cfg.max_attempts
      THEN [result |-> None, attempt |-> attempt, delay |-> delay]
      ELSE [result |-> Some(delay), attempt |-> attempt, delay |-> GrowDelay(delay, cfg)]

NextDelayOf(attempt, delay, cfg) ==
    IF attempt >= cfg.max_attempts
      THEN [result |-> None, attempt |-> attempt, delay |-> delay]
      ELSE [result |-> Some(delay), attempt |-> attempt + 1,
            delay |-> GrowDelay(delay, cfg)]

\* attempt_start inside the loop of start_with_retry (database.rs 351,
\* 397-438): a child that listens on the manager's port and takes the data
\* directory if no server holds it, or a failed spawn, which is a failed
\* attempt: another attempt after the next delay, or Timeout once
\* next_delay is None (database.rs 374-393).
PgSpawn(t) ==
    /\ task[t].pc = "pg_spawn"
    /\ LET m == task[t].run
       IN  \E spawn_ok \in BOOLEAN :
             IF spawn_ok
               THEN LET pid == NewPid
                        cs  == children \cup
                                 {[pid |-> pid, kind |-> "postgres",
                                   port |-> managers[m].port]}
                    IN  /\ children' = cs
                        /\ inUse' = Listening(cs)
                        /\ dataDirOwner' = IF dataDirOwner = 0 THEN pid ELSE dataDirOwner
                        /\ managers' = [managers EXCEPT ![m].process = Some(pid)]
                        /\ task' = [task EXCEPT ![t].pc = "pg_wait", ![t].polls = 0,
                                                ![t].spawns = @ + 1]
                        /\ UNCHANGED <<events, startup_metrics>>
               ELSE /\ LET rec  == [task[t] EXCEPT !.spawns = @ + 1, !.failed = @ + 1]
                           next == NextDelayOf(rec.attempt, rec.delay,
                                               PostgresStartupConfig)
                       IN  IF next.result = None
                             THEN /\ FailRunFrom(t, rec, "PostgresFailed", "Timeout", <<>>)
                                  /\ \E graceful \in GracefulChoices :
                                       DropManager(m, graceful, TRUE)
                             ELSE /\ task' = [task EXCEPT ![t] =
                                      [rec EXCEPT !.attempt = next.attempt,
                                                  !.delay = next.delay]]
                                  /\ UNCHANGED <<events, startup_metrics, children,
                                                 inUse, dataDirOwner, managers>>
    /\ UNCHANGED <<backend_process, backend_port, postgres_port, is_backend_ready,
                   is_postgres_ready, postgres_manager, service_config, cacheFile,
                   runs, shutdowns>>
    /\ UNCHANGED fixedVars

\* wait_for_ready_with_backoff, one probe at a time (database.rs 448-492),
\* and what start_with_retry does with its error: without pg_isready the
\* wait sleeps and reports success; a probe succeeds only on a server that
\* accepts connections; when the time is up the child is killed
\* (kill_process) and the attempt has failed: another attempt after the
\* next delay, or Timeout once next_delay is None (database.rs 367-393).
PgWait(t) ==
    /\ task[t].pc = "pg_wait"
    /\ LET m == task[t].run
       IN  IF ~env.pg_isready_exists
             THEN /\ task' = [task EXCEPT ![t].pc = "pg_setup"]
                  /\ UNCHANGED <<events, startup_metrics, children, inUse,
                                 dataDirOwner, managers>>
           ELSE IF task[t].polls >= MaxPolls
             THEN LET handle == managers[m].process
                      cs     == IF handle = None THEN children
                                ELSE Without(children, handle[1])
                      owner  == IF handle # None /\ dataDirOwner = handle[1]
                                  THEN 0 ELSE dataDirOwner
                      rec    == [task[t] EXCEPT !.failed = @ + 1, !.polls = 0]
                      next   == NextDelayOf(rec.attempt, rec.delay,
                                            PostgresStartupConfig)
                  IN  /\ managers' = [managers EXCEPT ![m].process = None]
                      /\ IF next.result = None
                           THEN /\ FailRunFrom(t, rec, "PostgresFailed", "Timeout", <<>>)
                                /\ \E graceful \in GracefulOn(owner) :
                                     LET s == StopOn(cs, owner, None, graceful, TRUE)
                                     IN  /\ children' = s.children
                                         /\ dataDirOwner' = s.owner
                                         /\ inUse' = Listening(s.children)
                           ELSE /\ task' = [task EXCEPT ![t] =
                                      [rec EXCEPT !.pc = "pg_spawn",
                                                  !.attempt = next.attempt,
                                                  !.delay = next.delay]]
                                /\ children' = cs
                                /\ dataDirOwner' = owner
                                /\ inUse' = Listening(cs)
                                /\ UNCHANGED <<events, startup_metrics>>
           ELSE /\ \E ready \in BOOLEAN :
                     /\ ready => is_running(managers[m].port)
                     /\ task' = [task EXCEPT
                                   ![t].pc = IF ready THEN "pg_setup" ELSE "pg_wait",
                                   ![t].polls = IF ready THEN @ ELSE @ + 1]
                /\ UNCHANGED <<events, startup_metrics, children, inUse,
                               dataDirOwner, managers>>
    /\ UNCHANGED <<backend_process, backend_port, postgres_port, is_backend_ready,
                   is_postgres_ready, postgres_manager, service_config, cacheFile,
                   runs, shutdowns>>
    /\ UNCHANGED fixedVars

\* setup_database and the return of start_with_retry (database.rs 357-365):
\* its failure is StartFailed, and the manager, dropped, stops the server.
PgSetup(t) ==
    /\ task[t].pc = "pg_setup"
    /\ LET m == task[t].run
       IN  \E setup_ok \in BOOLEAN :
             IF setup_ok
               THEN /\ task' = [task EXCEPT ![t].pc = "pg_store"]
                    /\ UNCHANGED <<events, startup_metrics, children, inUse,
                                   dataDirOwner, managers>>
               ELSE /\ FailRun(t, "PostgresFailed", "StartFailed", <<>>)
                    /\ \E graceful \in GracefulChoices, kill_ok \in KillChoices(m) :
                         DropManager(m, graceful, kill_ok)
    /\ UNCHANGED <<backend_process, backend_port, postgres_port, is_backend_ready,
                   is_postgres_ready, postgres_manager, service_config, cacheFile,
                   runs, shutdowns>>
    /\ UNCHANGED fixedVars

\* The end of start_postgres_internal and the rest of the database branch
\* of start_services_internal (lib.rs 604-613, 438-470): the manager's port
\* and the manager go into AppState (a manager replaced there is dropped,
\* and Drop calls stop), the database is ready, postgres-ready is emitted,
\* the metrics are marked with 0 retries, then backend-starting.
PgStore(t) ==
    /\ task[t].pc = "pg_store"
    /\ LET m      == task[t].run
           actual == managers[m].port
           old    == IF postgres_manager # None /\ postgres_manager[1] # m
                       THEN postgres_manager ELSE None
       IN  /\ postgres_port' = actual
           /\ postgres_manager' = Some(m)
           /\ is_postgres_ready' = TRUE
           /\ events' = Emit(m, << Ev(m, "PostgresReady", actual),
                                    Ev(m, "BackendStarting", backend_port) >>)
           /\ startup_metrics' = mark_postgres_started(startup_metrics, actual, 0)
           /\ task' = [task EXCEPT ![t].pc = "be_resolve", ![t].port = backend_port]
           /\ IF old = None
                THEN UNCHANGED <<children, dataDirOwner, inUse, managers>>
                ELSE \E graceful \in GracefulChoices, kill_ok \in KillChoices(old[1]) :
                       DropManager(old[1], graceful, kill_ok)
    /\ UNCHANGED <<backend_process, backend_port, is_backend_ready, service_config,
                   cacheFile, runs, shutdowns>>
    /\ UNCHANGED fixedVars

\* find_backend_path: whether one of the candidate paths exists. The first
\* one takes the executable for found.
find_backend_path_unchecked == TRUE

find_backend_path == env.backend_exists

\* How a failure of start_backend_internal ends the task: restart_backend
\* returns the error; start_services_internal takes its failure branch.
BackendFail(t, error, before) ==
    IF task[t].op = "restart_backend"
      THEN /\ events' = Emit(task[t].run, before)
           /\ task' = [task EXCEPT ![t].pc = "done", ![t].result = "Err",
                                   ![t].error = error]
           /\ UNCHANGED startup_metrics
      ELSE FailRun(t, "BackendFailed", error, before)

\* start_backend_internal up to wait_for_backend_ready (lib.rs 616-817): the
\* port conflict handling, find_backend_path, the spawn, and the child's
\* handle stored over whatever AppState.backend_process held.
BeResolve(t) ==
    /\ task[t].pc = "be_resolve"
    /\ LET r        == ResolvePort(backend_port)
           conflict == IF r.conflict
                         THEN <<Ev(task[t].run, "PortConflict", backend_port)>>
                         ELSE <<>>
       IN  IF ~r.ok
             THEN /\ BackendFail(t, "PortInUse", conflict)
                  /\ UNCHANGED <<backend_port, backend_process, children, inUse>>
           ELSE /\ backend_port' = r.port
                /\ IF ~find_backend_path
                     THEN /\ BackendFail(t, "BackendNotFound", conflict)
                          /\ UNCHANGED <<backend_process, children, inUse>>
                     ELSE \E spawn_ok \in BOOLEAN :
                            IF spawn_ok
                              THEN LET pid == NewPid
                                       cs  == children \cup
                                                {[pid |-> pid, kind |-> "backend",
                                                  port |-> r.port]}
                                   IN  /\ children' = cs
                                       /\ inUse' = Listening(cs)
                                       /\ backend_process' = Some(pid)
                                       /\ events' = Emit(task[t].run, conflict)
                                       /\ task' = [task EXCEPT ![t].pc = "be_wait",
                                                               ![t].polls = 0,
                                                               ![t].be_port = r.port,
                                                               ![t].be_spawns = @ + 1]
                                       /\ UNCHANGED startup_metrics
                              ELSE /\ BackendFail(t, "SpawnFailed", conflict)
                                   /\ UNCHANGED <<backend_process, children, inUse>>
    /\ UNCHANGED <<postgres_port, is_backend_ready, is_postgres_ready, postgres_manager,
                   service_config, managers, cacheFile, runs, shutdowns, dataDirOwner>>
    /\ UNCHANGED fixedVars

\* wait_for_backend_ready, one health probe at a time (lib.rs 891-936), and
\* what its caller does with the result (lib.rs 819-822, 473-498): a probe
\* succeeds only on a backend listening on the port; the first success sets
\* is_backend_ready, and start_services_internal emits backend-ready and
\* marks the metrics with 0 retries; when the time is up the wait fails and
\* the child is left as it is.
BeWait(t) ==
    /\ task[t].pc = "be_wait"
    /\ IF task[t].polls >= MaxPolls
         THEN /\ BackendFail(t, "BackendTimeout", <<>>)
              /\ UNCHANGED is_backend_ready
         ELSE \E ready \in BOOLEAN :
                /\ ready => \E c \in children :
                               c.kind = "backend" /\ c.port = task[t].be_port
                /\ IF ~ready
                     THEN /\ task' = [task EXCEPT ![t].polls = @ + 1]
                          /\ UNCHANGED <<is_backend_ready, events, startup_metrics>>
                   ELSE IF task[t].op = "restart_backend"
                     THEN /\ is_backend_ready' = TRUE
                          /\ task' = [task EXCEPT ![t].pc = "done", ![t].result = "Ok"]
                          /\ UNCHANGED <<events, startup_metrics>>
                   ELSE /\ is_backend_ready' = TRUE
                        /\ events' = Emit(task[t].run,
                                       <<Ev(task[t].run, "BackendReady", backend_port)>>)
                        /\ startup_metrics' =
                             mark_backend_started(startup_metrics, backend_port, 0)
                        /\ task' = [task EXCEPT ![t].pc = "complete"]
    /\ UNCHANGED <<backend_process, backend_port, postgres_port, is_postgres_ready,
                   postgres_manager, service_config, managers, children, cacheFile,
                   runs, shutdowns, inUse, dataDirOwner>>
    /\ UNCHANGED fixedVars

\* What start_services_internal returns after the save: the error of a
\* failed save is logged and dropped.
ReturnSaveResult(save_result) == save_result

ReturnAfterSave(save_result) == "Ok"

\* The end of start_services_internal (lib.rs 500-526): mark_complete,
\* all-ready, and the ports of AppState saved as the last successful
\* configuration; a failed save is logged, and Ok is returned either way.
\* The time of the save is the number of the run.
Complete(t) ==
    /\ task[t].pc = "complete"
    /\ \E write_ok \in BOOLEAN :
         LET marked == mark_complete(startup_metrics)
             cfg    == mark_successful_startup(ServiceConfig_default, postgres_port,
                                               backend_port, task[t].run)
             s      == save(cacheFile, cfg, write_ok)
         IN  /\ startup_metrics' = marked
             /\ events' = Emit(task[t].run, <<Ev(task[t].run, "AllServicesReady", 0)>>)
             /\ cacheFile' = s.file
             /\ task' = [task EXCEPT ![t].pc = "done",
                                     ![t].marked = marked.success,
                                     ![t].result = ReturnAfterSave(s.result),
                                     ![t].saved = s.result]
    /\ UNCHANGED <<backend_process, backend_port, postgres_port, is_backend_ready,
                   is_postgres_ready, postgres_manager, service_config, managers,
                   children, runs, shutdowns, inUse, dataDirOwner>>
    /\ UNCHANGED fixedVars

\* AppState::default
AppStateInit ==
    /\ backend_process = None
    /\ backend_port = DefaultBackendPort
    /\ postgres_port = DefaultPostgresPort
    /\ is_backend_ready = FALSE
    /\ is_postgres_ready = FALSE
    /\ postgres_manager = None
    /\ startup_metrics = StartupMetrics_new
    /\ service_config = None

\* The ports other programs may hold when the application is launched: the
\* database's default port, it and the next two, it and the whole range
\* searched above it; likewise for the backend's.
ForeignPortSets ==
    { pg \cup be :
        pg \in { {}, {5433}, 5433..5435, 5433..5443 },
        be \in { {}, {5001}, 5001..5011 } }

\* What the machine has installed: the backend executable, the postgres
\* and pg_isready binaries; and the ports other programs hold.
Machines ==
    [backend_exists : BOOLEAN, postgres_exists : BOOLEAN,
     pg_isready_exists : BOOLEAN, foreign_ports : ForeignPortSets]

\* The application right after launch (lib.rs 1420-1426): nothing started,
\* the startup task about to call start_services_internal.
OrchInit ==
    /\ AppStateInit
    /\ managers = [m \in 1..MaxRuns |-> NoManager]
    /\ children = {}
    /\ events = [r \in 0..MaxRuns |-> <<>>]
    /\ runs = 0
    /\ shutdowns = <<>>
    /\ task = [t \in Tasks |-> IF t = "startup" THEN TaskAt("start") ELSE TaskAt("idle")]
    /\ cacheFile \in CacheFiles
    /\ env \in Machines

\* The machine as the orchestrator finds it: the socket table holds the
\* other programs' ports, no server runs on the data directory.
OrchMachineInit ==
    /\ inUse = env.foreign_ports
    /\ canBindLow = FALSE
    /\ portCall = NoPortCall
    /\ pg_ctl_exists \in BOOLEAN
    /\ dataDirOwner = 0
    /\ process = None
    /\ alive = {}
    /\ spawned = 0
    /\ stopLog = <<>>

\* The steps of one start_services run of task t.
RunStep(t) ==
    \/ StartServices(t)
    \/ PgResolve(t)
    \/ PgStart(t)
    \/ PgSpawn(t)
    \/ PgWait(t)
    \/ PgSetup(t)
    \/ PgStore(t)
    \/ BeResolve(t)
    \/ BeWait(t)
    \/ Complete(t)

\* The application from launch, with no command invoked.
StartupNext == RunStep("startup")

(***************************************************************************)
(* lib.rs: the restart commands, shutdown_services and the events of the   *)
(* application's life that call it                                         *)
(***************************************************************************)

\* backend_process.take() followed by kill and wait (lib.rs 340-343,
\* 356-359, 944-964): the children left.
BackendKilled ==
    IF backend_process = None THEN children
    ELSE Without(children, backend_process[1])

\* restart_backend up to its call of start_backend_internal (lib.rs
\* 336-348): the backend child is killed and is_backend_ready cleared; the
\* database is not looked at.
RestartBackend(t) ==
    /\ task[t].pc = "idle"
    /\ children' = BackendKilled
    /\ inUse' = Listening(BackendKilled)
    /\ backend_process' = None
    /\ is_backend_ready' = FALSE
    /\ task' = [task EXCEPT ![t] = [TaskAt("be_resolve") EXCEPT !.op = "restart_backend"]]
    /\ UNCHANGED <<backend_port, postgres_port, is_postgres_ready, postgres_manager,
                   startup_metrics, service_config, managers, cacheFile, events, runs,
                   shutdowns, dataDirOwner>>
    /\ UNCHANGED fixedVars

\* restart_database up to its call of start_services_internal (lib.rs
\* 352-369): the backend child is killed, the stored manager stopped (an
\* error of stop is returned), is_postgres_ready cleared.
RestartDatabase(t) ==
    /\ task[t].pc = "idle"
    /\ backend_process' = None
    /\ is_backend_ready' = FALSE
    /\ IF postgres_manager = None
         THEN /\ children' = BackendKilled
              /\ inUse' = Listening(BackendKilled)
              /\ is_postgres_ready' = FALSE
              /\ task' = [task EXCEPT ![t] =
                            [TaskAt("start") EXCEPT !.op = "restart_database"]]
              /\ UNCHANGED <<managers, dataDirOwner>>
         ELSE LET m == postgres_manager[1]
              IN  \E graceful \in GracefulChoices, kill_ok \in KillChoices(m) :
                    LET s == StopOn(BackendKilled, dataDirOwner, managers[m].process,
                                    graceful, kill_ok)
                    IN  /\ children' = s.children
                        /\ inUse' = Listening(s.children)
                        /\ dataDirOwner' = s.owner
                        /\ managers' = [managers EXCEPT ![m].process = None]
                        /\ IF s.result = "Err"
                             THEN /\ task' = [task EXCEPT ![t] =
                                       [TaskAt("done") EXCEPT
                                          !.op = "restart_database",
                                          !.result = "Err", !.error = "StopFailed"]]
                                  /\ UNCHANGED is_postgres_ready
                             ELSE /\ task' = [task EXCEPT ![t] =
                                       [TaskAt("start") EXCEPT
                                          !.op = "restart_database"]]
                                  /\ is_postgres_ready' = FALSE
    /\ UNCHANGED <<backend_port, postgres_port, postgres_manager, startup_metrics,
                   service_config, cacheFile, events, runs, shutdowns>>
    /\ UNCHANGED fixedVars

\* Where the application is in its life, from the shutdown_services calls
\* made: tauri delivers ExitRequested after app.exit and after the last
\* window was destroyed, and Exit after ExitRequested.
Called(trigger) == \E i \in 1..Len(shutdowns) : shutdowns[i].trigger = trigger

Phase ==
    IF Called("exit") THEN "exited"
    ELSE IF Called("exit_requested") THEN "exiting"
    ELSE IF Called("quit") \/ Called("destroyed") THEN "exit_pending"
    ELSE "running"

\* kill_process_on_port(port) (lib.rs 999-1019): where lsof runs, every
\* process of the application found on the port is killed.
Swept(cs, port, lsof_ok) == IF lsof_ok THEN {c \in cs : c.port # port} ELSE cs

\* The holder of the data directory once only `cs` are left running.
OwnerIn(cs, owner) == IF owner \in {c.pid : c \in cs} THEN owner ELSE 0

\* Something shutdown_services does to service `svc`: "stop" (it has a
\* handle or a manager to stop), "request" (the cooperative stop, pg_ctl
\* stop, and whether it succeeded), "kill" (Child::kill), "sweep"
\* (kill_process_on_port).
Op(svc, op, ok) == [svc |-> svc, op |-> op, ok |-> ok]

\* What PostgresManager::stop does (database.rs 494-529) on a manager holding
\* `handle`, `graceful` telling whether pg_ctl stopped the server.
StopOps(handle, graceful) ==
    <<Op("database", "stop", TRUE)>>
      \o (IF pg_ctl_exists THEN <<Op("database", "request", graceful)>> ELSE <<>>)
      \o (IF ~graceful /\ handle # None THEN <<Op("database", "kill", TRUE)>> ELSE <<>>)

\* The statements of shutdown_services with the database first.
ShutdownPlanForward ==
    << "database_stop", "database_sweep", "backend_stop", "backend_sweep" >>

\* The statements of shutdown_services in the order of the code (lib.rs
\* 943-978): the backend child, its port, the database manager, its port.
ShutdownPlan ==
    << "backend_stop", "backend_sweep", "database_stop", "database_sweep" >>

\* One statement of shutdown_services applied to `st`: the children, the
\* holder of the data directory, the managers, and the log of what was done.
ShutdownStatement(st, stmt, lsof_ok, graceful, kill_ok) ==
    IF stmt = "backend_stop"
      THEN IF backend_process = None THEN st
           ELSE [st EXCEPT !.children = Without(@, backend_process[1]),
                           !.ops = @ \o << Op("backend", "stop", TRUE),
                                            Op("backend", "kill", TRUE) >>]
    ELSE IF stmt = "backend_sweep"
      THEN LET cs == Swept(st.children, backend_port, lsof_ok)
           IN  [st EXCEPT !.children = cs, !.owner = OwnerIn(cs, @),
                          !.ops = Append(@, Op("backend", "sweep", TRUE))]
    ELSE IF stmt = "database_stop"
      THEN IF postgres_manager = None THEN st
           ELSE LET m      == postgres_manager[1]
                    handle == st.managers[m].process
                    g      == graceful /\ pg_ctl_exists /\ st.owner # 0
                    s      == StopOn(st.children, st.owner, handle, g, kill_ok)
                IN  [st EXCEPT !.children = s.children, !.owner = s.owner,
                               !.managers[m].process = None,
                               !.ops = @ \o StopOps(handle, g)]
    ELSE LET cs == Swept(st.children, postgres_port, lsof_ok)
         IN  [st EXCEPT !.children = cs, !.owner = OwnerIn(cs, @),
                        !.ops = Append(@, Op("database", "sweep", TRUE))]

\* The statements of `plan` from the i-th on, applied in order.
RECURSIVE ShutdownFrom(_, _, _, _, _, _)
ShutdownFrom(st, plan, i, lsof_ok, graceful, kill_ok) ==
    IF i > Len(plan) THEN st
    ELSE ShutdownFrom(ShutdownStatement(st, plan[i], lsof_ok, graceful, kill_ok),
                      plan, i + 1, lsof_ok, graceful, kill_ok)

\* The calls made before the one being made: what they did is forgotten.
Earlier(calls) == [i \in 1..Len(calls) |-> [calls[i] EXCEPT !.ops = <<>>]]

\* shutdown_services (lib.rs 939-981), called for `trigger`: the backend
\* child is killed, its port swept, the stored manager stopped (the result
\* is dropped), the database's port swept. Nothing records that it ran.
\* `lsof_ok`: lsof is there to find the processes on a port; `graceful`:
\* pg_ctl stops the server; `kill_ok`: the result of Child::kill in stop
\* (each a choice only where it makes a difference).
shutdown_services(trigger) ==
    /\ \E lsof_ok  \in (IF children # {} THEN BOOLEAN ELSE {TRUE}),
          graceful \in (IF postgres_manager # None THEN GracefulChoices ELSE {FALSE}),
          kill_ok  \in (IF postgres_manager # None
                          THEN KillChoices(postgres_manager[1]) ELSE {TRUE}) :
         LET st0 == [children |-> children, owner |-> dataDirOwner,
                     managers |-> managers, ops |-> <<>>]
             st  == ShutdownFrom(st0, ShutdownPlan, 1, lsof_ok, graceful, kill_ok)
         IN  /\ children' = st.children
             /\ inUse' = Listening(st.children)
             /\ dataDirOwner' = st.owner
             /\ managers' = st.managers
             /\ shutdowns' = Append(Earlier(shutdowns),
                                    [trigger |-> trigger, ops |-> st.ops])
    /\ backend_process' = None
    /\ UNCHANGED <<backend_port, postgres_port, is_backend_ready, is_postgres_ready,
                   postgres_manager, startup_metrics, service_config, cacheFile,
                   events, task, runs>>
    /\ UNCHANGED fixedVars

\* The tray menu's "quit" (lib.rs 1410-1414): shutdown_services, app.exit(0).
TrayQuit ==
    /\ Phase = "running"
    /\ shutdown_services("quit")

\* WindowEvent::Destroyed (lib.rs 1440-1443): the window is closed by the
\* user, or destroyed while the application exits.
WindowDestroyed ==
    /\ Phase \in {"running", "exit_pending", "exiting"}
    /\ ~Called("destroyed")
    /\ shutdown_services("destroyed")

\* RunEvent::ExitRequested (lib.rs 1471-1475)
ExitRequested ==
    /\ Phase = "exit_pending"
    /\ shutdown_services("exit_requested")

\* RunEvent::Exit (lib.rs 1476-1479); the process ends after it.
Exit ==
    /\ Phase = "exiting"
    /\ shutdown_services("exit")

\* The application from launch with one restart command invoked at any
\* time: the startup task and the command's task, in any interleaving.
CommandsNext ==
    \/ \E t \in Tasks : RunStep(t)
    \/ RestartBackend("command")
    \/ RestartDatabase("command")

\* A step of the startup task while the process lives.
StartupStep == Phase # "exited" /\ RunStep("startup")

\* The application from launch to exit: the startup task and the events of
\* the application's life, in any interleaving.
LifeNext ==
    \/ StartupStep
    \/ TrayQuit
    \/ WindowDestroyed
    \/ ExitRequested
    \/ Exit

(***************************************************************************)
(* database.rs, lib.rs: the readiness waits, with the time they take       *)
(* (wait_for_ready_with_backoff, wait_for_backend_ready), in milliseconds  *)
(***************************************************************************)

\* The interval between two pg_isready probes, and the sleep that replaces
\* the probes when pg_isready is missing.
CheckIntervalMs == 500
BlindSleepMs    == 5000

\* HealthCheckConfig::default
HealthCheckConfig_default ==
    [initial_interval_ms |-> 500, max_interval_ms |-> 2000,
     backoff_multiplier |-> <<3, 2>>, max_wait_secs |-> 120]

\* The time a probe can take: it answers at once, or it takes a while (a
\* slow pg_isready, a health request that runs into its own timeout).
ProbeTimes == {0, 2500}

WaitKinds == {"database", "backend"}

\* The time after which the wait of `kind` gives up.
TimeoutMs(kind) ==
    IF kind = "database" THEN PostgresStartupConfig.timeout_secs * 1000
    ELSE HealthCheckConfig_default.max_wait_secs * 1000

\* The first interval of the wait of `kind`.
FirstInterval(kind) ==
    IF kind = "database" THEN CheckIntervalMs
    ELSE HealthCheckConfig_default.initial_interval_ms

\* The interval after `interval`: the database's wait keeps check_interval
\* (database.rs 463, 484); the backend's multiplies it, capped at
\* max_interval_ms, in whole milliseconds (lib.rs 927-929).
NextInterval(kind, interval) ==
    IF kind = "database" THEN interval
    ELSE LET cfg == HealthCheckConfig_default
         IN  Min((interval * cfg.backoff_multiplier[1]) \div cfg.backoff_multiplier[2],
                 cfg.max_interval_ms)

\* The loop condition that lets the deadline itself pass.
ExpiredLate(elapsed, timeout) == elapsed > timeout

\* The negation of the loop condition `start.elapsed() < timeout`.
Expired(elapsed, timeout) == ~(elapsed < timeout)

\* No wait under way. pc: where the wait is; elapsed: start.elapsed();
\* interval: the next sleep; probes, sleeps: probes and sleeps made; slept:
\* the last sleep; probeStart: start.elapsed() when the last probe began.
NoWait ==
    [kind |-> "none", pc |-> "idle", elapsed |-> 0, interval |-> 0, probes |-> 0,
     sleeps |-> 0, slept |-> 0, probeStart |-> 0, result |-> "none"]

WaitIdle == wait = NoWait

\* The wait is called for a service just spawned. Without pg_isready the
\* database's wait sleeps and reports success (database.rs 452-457).
WaitBegin ==
    /\ wait.pc = "idle"
    /\ \E kind \in WaitKinds, probe_exists \in BOOLEAN :
         /\ kind = "backend" => probe_exists
         /\ wait' = IF probe_exists
                      THEN [NoWait EXCEPT !.kind = kind, !.pc = "check",
                                          !.interval = FirstInterval(kind)]
                      ELSE [NoWait EXCEPT !.kind = kind, !.pc = "done",
                                          !.elapsed = BlindSleepMs,
                                          !.slept = BlindSleepMs, !.result = "Ok"]
    /\ UNCHANGED <<backoffVars, portVars, managerVars, orchVars, lockVars>>

\* The head of the loop: `while start.elapsed() < timeout`; past the loop
\* the wait returns its timeout error.
WaitCheck ==
    /\ wait.pc = "check"
    /\ wait' = IF Expired(wait.elapsed, TimeoutMs(wait.kind))
                 THEN [wait EXCEPT !.pc = "done", !.result = "Err"]
                 ELSE [wait EXCEPT !.pc = "probing", !.probeStart = wait.elapsed]
    /\ UNCHANGED <<backoffVars, portVars, managerVars, orchVars, lockVars>>

\* The body of the loop: one probe, which takes its time; on success the
\* wait returns Ok, otherwise it sleeps the current interval and sets the
\* next one.
WaitProbe ==
    /\ wait.pc = "probing"
    /\ \E took \in ProbeTimes, ready \in BOOLEAN :
         wait' = IF ready
                   THEN [wait EXCEPT !.pc = "done", !.result = "Ok",
                                     !.probes = @ + 1, !.elapsed = @ + took]
                   ELSE [wait EXCEPT !.pc = "check", !.probes = @ + 1,
                                     !.elapsed = @ + took + wait.interval,
                                     !.sleeps = @ + 1, !.slept = wait.interval,
                                     !.interval = NextInterval(wait.kind, @)]
    /\ UNCHANGED <<backoffVars, portVars, managerVars, orchVars, lockVars>>

WaitNext == WaitBegin \/ WaitCheck \/ WaitProbe

(***************************************************************************)
(* lib.rs, database.rs: the mutexes of AppState and of PostgresManager,    *)
(* and where each function takes and releases them                         *)
(***************************************************************************)

\* The mutexes of AppState (lib.rs 115-124) and of PostgresManager
\* (database.rs 51-58). The managers' mutexes are modelled once for all
\* managers, which makes the threads contend for them more than they can.
Locks ==
    {"backend_process", "backend_port", "postgres_port", "is_backend_ready",
     "is_postgres_ready", "postgres_manager", "startup_metrics", "service_config",
     "manager.port", "manager.process", "manager.initialized"}

\* The threads: the startup task, one restart command, the event loop
\* running shutdown_services, and the status queries of the window.
Threads == {"startup", "command", "shutdown", "query"}

\* The instructions of a function, as far as its mutexes go: lock() and the
\* guard's drop; lock() in a statement that only reads or assigns the value,
\* at whose end the guard is dropped ("brief"); a readiness probe with the sleep after it ("poll"); a
\* backoff sleep or the sleep taken for the probe ("sleep"); a child or an
\* external command run, killed or waited for ("run"); and the control
\* flow: either the next instruction or the one `by` further ("or"), the
\* one `by` further ("jump"), the one after a label ("goto"), the
\* function's return.
Lock(l)   == [op |-> "lock", lock |-> l, by |-> 1]
Unlock(l) == [op |-> "unlock", lock |-> l, by |-> 1]
Do(op)    == [op |-> op, lock |-> "-", by |-> 1]
Or(by)    == [op |-> "or", lock |-> "-", by |-> by]
Jump(by)  == [op |-> "jump", lock |-> "-", by |-> by]
Return    == [op |-> "return", lock |-> "-", by |-> 1]
Label(l)  == [op |-> "label", lock |-> l, by |-> 1]
Goto(l)   == [op |-> "goto", lock |-> l, by |-> 1]

\* `*x.lock().unwrap()` read or assigned in one statement: the guard is a
\* temporary dropped at the end of the statement, and the statement does
\* nothing else.
Brief(l) == <<[op |-> "brief", lock |-> l, by |-> 1]>>

\* if / else, if without else, and a loop run at least once.
Either(a, b) == <<Or(Len(a) + 2)>> \o a \o <<Jump(Len(b) + 1)>> \o b
Maybe(a)     == <<Or(Len(a) + 1)>> \o a
Loop(a)      == a \o <<Or(-Len(a))>>

\* `let port = *self.port.lock().unwrap();` at the head of
\* wait_for_ready_with_backoff with the guard kept in a variable.
WaitPortReadGuardKept == <<Lock("manager.port")>>

\* wait_for_ready_with_backoff (database.rs 448-492): the port is read,
\* then without pg_isready one sleep, else the polling loop.
WaitPortRead == Brief("manager.port")

WaitForReady ==
    WaitPortRead \o Either(<<Do("sleep")>>, Maybe(Loop(<<Do("poll")>>)))

\* kill_process (database.rs 440-446): the guard of `process` lives to the
\* end of the if-let, across kill and wait.
KillProcess == <<Lock("manager.process"), Do("run"), Unlock("manager.process")>>

\* PostgresManager::stop (database.rs 494-529): pg_ctl stop, then either
\* the handle cleared, or the handle taken and the child killed under the
\* guard.
ManagerStop ==
    <<Do("run")>> \o Either(Brief("manager.process"), KillProcess)

\* start_with_retry (database.rs 322-395): the initialized check,
\* ensure_port_available, is_running, then the attempts: attempt_start
\* storing the child, the wait, setup_database, and after a failed attempt
\* kill_process and the backoff sleep. An error leaves through the
\* manager's drop.
StartWithRetry ==
    LET attempt == Brief("manager.process") \o WaitForReady
                     \o Maybe(Brief("manager.port"))
        failed  == KillProcess \o Maybe(<<Goto("dropped")>>) \o <<Do("sleep")>>
    IN  Brief("manager.initialized")
          \o Brief("manager.port") \o Maybe(Brief("manager.port"))
          \o Maybe(<<Goto("dropped")>>)
          \o Brief("manager.port")
          \o Maybe(attempt \o <<Or(Len(failed) + 2)>> \o failed
                     \o <<Jump(-(Len(attempt) + 1 + Len(failed)))>>)

\* start_postgres_internal (lib.rs 530-613): the port read and moved on a
\* conflict, init_database, start, then the port, the manager (the manager
\* it replaces is dropped, and stopped, under the guard) and the flag
\* stored.
StartPostgres ==
    Brief("postgres_port")
      \o Maybe(Either(Brief("postgres_port"), <<Goto("failed")>>))
      \o Maybe(Brief("manager.port")) \o Maybe(<<Goto("dropped")>>)
      \o Brief("manager.initialized")
      \o StartWithRetry
      \o Brief("manager.port") \o Brief("postgres_port")
      \o <<Lock("postgres_manager")>> \o Maybe(ManagerStop)
      \o <<Unlock("postgres_manager")>>
      \o Brief("is_postgres_ready")

\* start_backend_internal (lib.rs 616-823): the ports read, the backend's
\* moved on a conflict, the child spawned and stored, then
\* wait_for_backend_ready (lib.rs 891-936): the polling loop, and the flag
\* set on the first success.
StartBackend(fail) ==
    Brief("backend_port") \o Brief("postgres_port")
      \o Maybe(Either(Brief("backend_port"), fail))
      \o Maybe(fail)
      \o Brief("backend_process")
      \o Maybe(Loop(<<Do("poll")>>)) \o Either(Brief("is_backend_ready"), fail)

\* start_services_internal (lib.rs 407-527); at its end the ways out of a
\* failed start_postgres_internal, through the drop of the manager it
\* created (database.rs 650-654), and the failure branches (lib.rs 453-465,
\* 487-498).
StartServicesProgram ==
    Brief("startup_metrics")
      \o Maybe(Brief("postgres_port")) \o Maybe(Brief("backend_port"))
      \o Brief("service_config")
      \o Brief("postgres_port")
      \o StartPostgres
      \o Brief("postgres_port") \o Brief("startup_metrics")
      \o Brief("backend_port")
      \o StartBackend(<<Goto("failed")>>)
      \o Brief("backend_port") \o Brief("startup_metrics")
      \o Brief("startup_metrics")
      \o Brief("postgres_port") \o Brief("backend_port")
      \o <<Return>>
      \o <<Label("dropped")>> \o ManagerStop
      \o <<Label("failed")>> \o Brief("startup_metrics") \o <<Return>>

\* The backend's handle taken, the child killed and waited for under the
\* guard (lib.rs 340-345, 356-360), then the flag cleared.
KillBackend ==
    <<Lock("backend_process")>> \o Maybe(<<Do("run")>>)
      \o <<Unlock("backend_process")>> \o Brief("is_backend_ready")

\* restart_backend (lib.rs 335-349).
RestartBackendProgram == KillBackend \o StartBackend(<<Return>>) \o <<Return>>

\* restart_database (lib.rs 351-370): the stored manager is stopped under
\* the guard of postgres_manager; an error of stop is returned.
RestartDatabaseProgram ==
    KillBackend
      \o <<Lock("postgres_manager")>> \o Maybe(ManagerStop)
      \o <<Unlock("postgres_manager")>> \o Maybe(<<Return>>)
      \o Brief("is_postgres_ready")
      \o StartServicesProgram

\* shutdown_services (lib.rs 939-981): the backend killed under the guard
\* of backend_process, the manager cloned out of its guard and stopped.
ShutdownProgram ==
    Brief("backend_port")
      \o <<Lock("backend_process")>> \o Maybe(<<Do("run")>>)
      \o <<Unlock("backend_process")>>
      \o Brief("postgres_port") \o Brief("postgres_manager")
      \o Maybe(ManagerStop)
      \o <<Return>>

\* The functions the threads run; the status queries (lib.rs 163-196)
\* read one or two values, each in a statement of its own.
Program(name) ==
    CASE name = "start_services"      -> StartServicesProgram
      [] name = "restart_backend"     -> RestartBackendProgram
      [] name = "restart_database"    -> RestartDatabaseProgram
      [] name = "shutdown_services"   -> ShutdownProgram
      [] name = "is_backend_ready"    -> Brief("is_backend_ready") \o <<Return>>
      [] name = "get_database_status" ->
           Brief("is_postgres_ready") \o Brief("is_backend_ready") \o <<Return>>
      [] name = "get_startup_metrics" -> Brief("startup_metrics") \o <<Return>>
      [] name = "get_port_config"     ->
           Brief("postgres_port") \o Brief("backend_port") \o <<Return>>
      [] OTHER                        -> <<>>

\* What a thread may call.
Callable(th) ==
    CASE th = "startup"  -> {"start_services"}
      [] th = "command"  -> {"restart_backend", "restart_database"}
      [] th = "shutdown" -> {"shutdown_services"}
      [] th = "query"    -> {"is_backend_ready", "get_database_status",
                             "get_startup_metrics", "get_port_config"}

\* Where label l stands in program p.
LabelAt(p, l) == CHOOSE i \in 1..Len(p) : p[i] = Label(l)

\* The instructions control can be at when it reaches index i of program
\* p: i itself unless it is control flow; 0 when the function returns.
RECURSIVE Reach(_, _)
Reach(p, i) ==
    IF i > Len(p) THEN {0}
    ELSE IF p[i].op = "return" THEN {0}
    ELSE IF p[i].op = "label" THEN Reach(p, i + 1)
    ELSE IF p[i].op = "goto" THEN Reach(p, LabelAt(p, p[i].lock))
    ELSE IF p[i].op = "jump" THEN Reach(p, i + p[i].by)
    ELSE IF p[i].op = "or" THEN Reach(p, i + 1) \cup Reach(p, i + p[i].by)
    ELSE {i}

\* A thread that runs nothing.
Resting == [prog |-> "none", pc |-> 0]

Running(th) == thread[th].pc # 0

\* The instruction thread th is at.
At(th) == Program(thread[th].prog)[thread[th].pc]

\* Thread th goes on past its instruction; a status query that returns
\* leaves the thread free for the next one.
Advance(th) ==
    \E pc \in Reach(Program(thread[th].prog), thread[th].pc + 1) :
        thread' = [thread EXCEPT ![th] =
                     IF pc = 0 /\ th = "query" THEN Resting
                     ELSE [prog |-> thread[th].prog, pc |-> pc]]

notLockVars == <<backoffVars, portVars, managerVars, orchVars, waitVars>>

\* The function is called: by the application at launch, by the window, by
\* the event loop.
Invoke(th) ==
    /\ thread[th] = Resting
    /\ \E name \in Callable(th) :
         \E pc \in Reach(Program(name), 1) :
           thread' = [thread EXCEPT ![th] = [prog |-> name, pc |-> pc]]
    /\ UNCHANGED <<held, notLockVars>>

\* lock(): the thread goes on once the mutex is free (std::sync::Mutex is
\* not reentrant).
Acquire(th) ==
    /\ Running(th)
    /\ At(th).op = "lock"
    /\ held[At(th).lock] = "free"
    /\ held' = [held EXCEPT ![At(th).lock] = th]
    /\ Advance(th)
    /\ UNCHANGED notLockVars

\* lock() in a statement that drops the guard at its end: the thread goes
\* on once the mutex is free, and leaves it free.
LockBriefly(th) ==
    /\ Running(th)
    /\ At(th).op = "brief"
    /\ held[At(th).lock] = "free"
    /\ Advance(th)
    /\ UNCHANGED <<held, notLockVars>>

\* The guard is dropped.
Release(th) ==
    /\ Running(th)
    /\ At(th).op = "unlock"
    /\ held' = [held EXCEPT ![At(th).lock] = "free"]
    /\ Advance(th)
    /\ UNCHANGED notLockVars

\* A probe, a sleep, or a process run, killed or waited for.
Work(th) ==
    /\ Running(th)
    /\ At(th).op \in {"poll", "sleep", "run"}
    /\ Advance(th)
    /\ UNCHANGED <<held, notLockVars>>

LocksIdle ==
    /\ held = [l \in Locks |-> "free"]
    /\ thread = [th \in Threads |-> Resting]

\* The threads, in any interleaving.
LocksNext ==
    \/ \E th \in Threads : Invoke(th)
    \/ \E th \in Threads : Acquire(th)
    \/ \E th \in Threads : LockBriefly(th)
    \/ \E th \in Threads : Release(th)
    \/ \E th \in Threads : Work(th)

\* PostgresManager::stop called from another thread on the manager of task
\* t while that manager's readiness wait is under way (database.rs
\* 494-529; the wait holds no guard, database.rs 451): the server is
\* stopped through pg_ctl, or the child of the handle is killed; the call's
\* result is logged with the number of the spawn whose wait it met.
StopDuringWait(t) ==
    /\ task[t].pc = "pg_wait"
    /\ stopLog = <<>>
    /\ LET m == task[t].run
       IN  \E graceful \in GracefulChoices, kill_ok \in KillChoices(m) :
             LET s == StopManager(m, graceful, kill_ok)
             IN  /\ children' = s.children
                 /\ dataDirOwner' = s.owner
                 /\ inUse' = Listening(s.children)
                 /\ managers' = [managers EXCEPT ![m].process = None]
                 /\ stopLog' = <<[handle |-> managers[m].process,
                                  aliveBefore |-> {c.pid : c \in children},
                                  spawnedAt |-> task[t].spawns,
                                  result |-> s.result,
                                  liveAfter |-> {c.pid : c \in s.children}]>>
    /\ UNCHANGED <<appVars, cacheFile, events, task, runs, env, shutdowns>>
    /\ UNCHANGED <<backoffVars, canBindLow, portCall, process, pg_ctl_exists, alive,
                   spawned, waitVars, lockVars>>

(***************************************************************************)
(* Components at rest, and the specifications                              *)
(***************************************************************************)

PortsIdle ==
    /\ inUse = {}
    /\ canBindLow = FALSE
    /\ portCall = NoPortCall

ManagerIdle ==
    /\ process = None
    /\ pg_ctl_exists = FALSE
    /\ alive = {}
    /\ dataDirOwner = 0
    /\ spawned = 0
    /\ stopLog = <<>>

OrchIdle ==
    /\ AppStateInit
    /\ managers = [m \in 1..MaxRuns |-> NoManager]
    /\ children = {}
    /\ cacheFile = MissingFile
    /\ events = [r \in 0..MaxRuns |-> <<>>]
    /\ task = [t \in Tasks |-> TaskAt("idle")]
    /\ runs = 0
    /\ env = [backend_exists |-> TRUE, postgres_exists |-> TRUE,
              pg_isready_exists |-> TRUE, foreign_ports |-> {}]
    /\ shutdowns = <<>>

InitBackoff == BackoffInit /\ PortsIdle /\ ManagerIdle /\ OrchIdle /\ WaitIdle /\ LocksIdle

SpecBackoff == InitBackoff /\ [][BackoffNext]_vars

InitPorts == PortsInit /\ BackoffIdle /\ ManagerIdle /\ OrchIdle /\ WaitIdle /\ LocksIdle

SpecPorts == InitPorts /\ [][PortsNext]_vars

InitManager == ManagerInit /\ BackoffIdle /\ PortsIdle /\ OrchIdle /\ WaitIdle /\ LocksIdle

SpecManager == InitManager /\ [][ManagerNext]_vars

InitStartup == OrchInit /\ OrchMachineInit /\ BackoffIdle /\ WaitIdle /\ LocksIdle

SpecStartup == InitStartup /\ [][StartupNext]_vars

\* The startup task is a task of the async runtime: as long as it has a step
\* to take (every external command and probe returns), it takes one.
\* The launches explored for termination: the cache file missing or
\* stored, the default ports free, occupied with a free port above, or
\* occupied with the whole range above.
InitStartupFair ==
    /\ InitStartup
    /\ cacheFile \in {MissingFile, File(TRUE, TRUE, TRUE, TRUE, Stored(5436, 5002, 1))}
    /\ env.foreign_ports \in { {}, (5433..5435) \cup {5001}, 5001..5011, 5433..5443 }

SpecStartupFair == InitStartupFair /\ [][StartupNext]_vars /\ WF_vars(StartupNext)

\* The launches explored with the application's life interleaved:
\* everything installed or the backend executable missing, no cache file,
\* the default ports free or both occupied.
InitOrch ==
    /\ InitStartup
    /\ cacheFile = MissingFile
    /\ env.postgres_exists /\ env.pg_isready_exists
    /\ env.foreign_ports \in { {}, {5433, 5001} }

\* The launch explored with a restart command interleaved: everything
\* installed, the default ports free.
InitCommands ==
    /\ InitOrch
    /\ env.backend_exists
    /\ pg_ctl_exists
    /\ env.foreign_ports = {}

SpecCommands == InitCommands /\ [][CommandsNext]_vars

SpecLife == InitOrch /\ [][LifeNext]_vars

\* PostgresManager::start called on a manager as the constructor leaves it,
\* with init_database done or not (database.rs 913-930 calls it without),
\* on any machine: the caller is at its call of manager.start().
InitStart ==
    /\ env \in Machines
    /\ OrchMachineInit /\ BackoffIdle /\ WaitIdle /\ LocksIdle
    /\ AppStateInit
    /\ \E initialized \in BOOLEAN :
         managers = [m \in 1..MaxRuns |->
                       IF m = 1 THEN [port |-> DefaultPostgresPort, process |-> None,
                                      initialized |-> initialized]
                       ELSE NoManager]
    /\ children = {}
    /\ events = [r \in 0..MaxRuns |-> <<>>]
    /\ runs = 1
    /\ shutdowns = <<>>
    /\ task = [t \in Tasks |->
                 IF t = "startup"
                   THEN [TaskAt("pg_start") EXCEPT !.op = "start", !.run = 1,
                                                   !.port = DefaultPostgresPort]
                   ELSE TaskAt("idle")]
    /\ cacheFile = MissingFile

\* The steps of PostgresManager::start: start_with_retry to its return.
StartNext ==
    \/ PgStart("startup")
    \/ PgSpawn("startup")
    \/ PgWait("startup")
    \/ PgSetup("startup")

SpecStart == InitStart /\ [][StartNext]_vars

\* PostgresManager::start with one stop called on the manager from another
\* thread during a readiness wait.
StopDuringWaitNext ==
    \/ PgStart("startup")
    \/ PgSpawn("startup")
    \/ PgWait("startup")
    \/ PgSetup("startup")
    \/ StopDuringWait("startup")

SpecStopDuringWait == InitStart /\ [][StopDuringWaitNext]_vars

InitWait == WaitIdle /\ LocksIdle /\ BackoffIdle /\ PortsIdle /\ ManagerIdle /\ OrchIdle

SpecWait == InitWait /\ [][WaitNext]_vars

\* The application with nothing called yet, and its threads taking and
\* releasing the mutexes.
InitLocks ==
    /\ LocksIdle /\ WaitIdle /\ BackoffIdle /\ PortsIdle /\ ManagerIdle /\ OrchIdle

SpecLocks == InitLocks /\ [][LocksNext]_vars

\* The three components side by side.
Init == BackoffInit /\ PortsInit /\ ManagerInit /\ OrchIdle /\ WaitIdle /\ LocksIdle

Next == BackoffNext \/ PortsNext \/ ManagerNext

Spec == Init /\ [][Next]_vars

(***************************************************************************)
(* Claims about ExponentialBackoff                                         *)
(***************************************************************************)

\* The k-th delay of the policy, written from the policy alone: the initial
\* delay, then each delay times the multiplier (whole milliseconds), capped.
RECURSIVE Geometric(_, _)
Geometric(cfg, k) ==
    IF k <= 1 THEN cfg.initial_delay_ms
    ELSE LET prev == Geometric(cfg, k - 1)
             grown == (prev * cfg.backoff_multiplier[1]) \div cfg.backoff_multiplier[2]
         IN  IF grown > cfg.max_delay_ms THEN cfg.max_delay_ms ELSE grown

\* The policy of test_exponential_backoff_delays.
TestPolicy ==
    [initial_delay_ms |-> 100, max_delay_ms |-> 1000,
     backoff_multiplier |-> <<2, 1>>, max_attempts |-> 5]

DelaysFollowPolicy ==
    \A k \in 1..Len(delays) :
        delays[k] = IF k <= config.max_attempts THEN Some(Geometric(config, k)) ELSE None

\* C1: from a freshly created backoff, the k-th next_delay call
\* (k <= max_attempts) returns initial_delay grown by the multiplier k-1
\* times, each step capped at max_delay (the first is initial_delay
\* unmodified), and every later call returns None; the policy
\* 100/1000/2.0/5 yields 100, 200, 400, 800, 1000, None.
C1_NextDelayGeometric ==
    resets = 0 =>
        /\ DelaysFollowPolicy
        /\ (Len(delays) >= 1 /\ config.max_attempts >= 1
              => delays[1] = Some(config.initial_delay_ms))
        /\ ((config = TestPolicy /\ Len(delays) = 6)
              => delays = <<Some(100), Some(200), Some(400), Some(800), Some(1000), None>>)

\* C1 witness: the test's policy after six calls, the fifth capped and the
\* sixth refused.
C1_Witness ==
    /\ resets = 0
    /\ config = TestPolicy
    /\ Len(delays) = 6
    /\ delays[5] = Some(1000)
    /\ delays[6] = None

\* C2: in every state reachable from new by next_delay and reset, for every
\* policy, current_delay never exceeds max_delay and attempts_used never
\* exceeds max_attempts.
C2_BackoffStateInvariant ==
    /\ current_delay_ms <= config.max_delay_ms
    /\ current_attempt <= config.max_attempts

\* The part of C2 that the code keeps: the attempt counter is bounded, and
\* the delay is bounded from the first next_delay call on.
C2_AttemptsBounded ==
    /\ current_attempt <= config.max_attempts
    /\ (current_attempt >= 1 => current_delay_ms <= config.max_delay_ms)

\* C3: after any sequence of next_delay calls (also past exhaustion), reset
\* restores the freshly created state: attempts_used = 0 and current_delay =
\* initial_delay, so the next call returns exactly initial_delay and
\* max_attempts delays are available again.
C3_ResetRestoresFresh ==
    resets > 0 =>
        /\ (delays = <<>> =>
              current_attempt = 0 /\ current_delay_ms = config.initial_delay_ms)
        /\ (Len(delays) >= 1 /\ config.max_attempts >= 1
              => delays[1] = Some(config.initial_delay_ms))
        /\ \A k \in 1..Len(delays) : (delays[k] # None) <=> (k <= config.max_attempts)
        /\ current_attempt = Min(Len(delays), config.max_attempts)

\* C3 witness: a reset made after the backoff was exhausted (a call had
\* returned None), followed by a full new round of delays.
C3_Witness ==
    /\ resets > 0
    /\ config.max_attempts >= 2
    /\ config.initial_delay_ms < config.max_delay_ms
    /\ callsBeforeReset > config.max_attempts
    /\ Len(delays) = config.max_attempts + 1
    /\ delays[1] = Some(config.initial_delay_ms)
    /\ delays[Len(delays)] = None

(***************************************************************************)
(* Claims about validate_port and find_available_port                      *)
(***************************************************************************)

Validated == portCall.op = "validate_port"
Searched  == portCall.op = "find_available_port"

\* C4, as claimed: for all ports p < 1024, validate_port(p) returns Reserved
\* whatever the socket table holds, and without attempting a bind.
C4_BelowLimitReserved ==
    (Validated /\ portCall.port < ReservedLimit)
        => (portCall.status = "Reserved" /\ portCall.probed = <<>>)

\* C4, amended: for all ports p with 0 < p < 1024, validate_port(p) returns
\* Reserved whatever the socket table holds, and without attempting a bind.
C4_NonZeroBelowLimitReserved ==
    (Validated /\ 0 < portCall.port /\ portCall.port < ReservedLimit)
        => (portCall.status = "Reserved" /\ portCall.probed = <<>>)

\* C4 witness: port 80 validated while a bind on it would succeed.
C4_Witness ==
    /\ Validated
    /\ portCall.port = 80
    /\ is_port_available(80)
    /\ portCall.status = "Reserved"

\* C5: validate_port(0) returns Invalid in every state of the socket table,
\* and validate_port always returns one of the four statuses (never raises).
C5_ZeroInvalid ==
    Validated =>
        /\ portCall.status \in {"Invalid", "Reserved", "Available", "InUse"}
        /\ (portCall.port = 0 => portCall.status = "Invalid" /\ portCall.probed = <<>>)

\* C5 witness: port 0 validated while other ports are in use.
C5_Witness ==
    /\ Validated
    /\ portCall.port = 0
    /\ inUse # {}
    /\ canBindLow
    /\ portCall.status = "Invalid"

\* The candidates find_available_port(start, n) is to probe, and those of
\* them that validate_port reports Available.
Candidate(start_port, i) ==
    IF start_port + (i - 1) <= PortMax THEN start_port + (i - 1) ELSE PortMax

AvailableCandidates(start_port, n) ==
    {i \in 1..n : PortStatus(Candidate(start_port, i)).status = "Available"}

\* C6: find_available_port(start, n) returns the first of the n candidates
\* start, start+1, ... that validate_port reports Available, or None when
\* none is; it never returns a port validate_port reports Invalid, Reserved
\* or InUse, for any start including 0 and values below 1024.
C6_FindReturnsFirstAvailable ==
    Searched =>
        LET ok == AvailableCandidates(portCall.port, portCall.max_attempts)
        IN  IF ok = {}
              THEN portCall.result = None
              ELSE \E i \in ok :
                     /\ \A j \in ok : i <= j
                     /\ portCall.result = Some(Candidate(portCall.port, i))

\* What the code keeps of C6: the port returned is the first candidate on
\* which a bind succeeds.
C6_FindReturnsFirstBindable ==
    Searched =>
        LET ok == {i \in 1..portCall.max_attempts :
                     is_port_available(Candidate(portCall.port, i))}
        IN  IF ok = {}
              THEN portCall.result = None
              ELSE \E i \in ok :
                     /\ \A j \in ok : i <= j
                     /\ portCall.result = Some(Candidate(portCall.port, i))

\* C7: find_available_port(start, 0) returns None for every start and every
\* socket table: zero attempts probe nothing.
C7_ZeroAttemptsNone ==
    (Searched /\ portCall.max_attempts = 0)
        => (portCall.result = None /\ portCall.probed = <<>>)

\* C7 witness: zero attempts from a port that validate_port reports
\* Available.
C7_Witness ==
    /\ Searched
    /\ portCall.max_attempts = 0
    /\ PortStatus(portCall.port).status = "Available"
    /\ portCall.result = None

\* C8: every candidate probed is min(start + offset, 65535), at most
\* max_attempts are probed, and a returned port p has start <= p <= 65535.
C8_ProbesSaturate ==
    Searched =>
        /\ Len(portCall.probed) <= portCall.max_attempts
        /\ \A i \in 1..Len(portCall.probed) :
             portCall.probed[i] = Candidate(portCall.port, i)
        /\ (portCall.result # None =>
              /\ portCall.port <= portCall.result[1]
              /\ portCall.result[1] <= PortMax)

\* C8 witness: a search from 65534 whose third candidate would pass the
\* ceiling.
C8_Witness ==
    /\ Searched
    /\ portCall.port = 65534
    /\ portCall.probed = <<65534, 65535, 65535>>
    /\ portCall.result = None

(***************************************************************************)
(* Claims about PostgresManager::stop                                      *)
(***************************************************************************)

\* The stop call recorded at i was followed by another one with no spawn
\* in between.
StoppedAgain(i) ==
    /\ i + 1 <= Len(stopLog)
    /\ stopLog[i + 1].spawnedAt = stopLog[i].spawnedAt

\* C9: stop on a manager that holds no child handle, never started or
\* already stopped, returns success every time, however many times in a
\* row.
C9_StopWithoutHandleOk ==
    \A i \in 1..Len(stopLog) :
        stopLog[i].handle = None => stopLog[i].result = "Ok"

\* C9 witness: a stop before any spawn, then, after a spawn, a stop that
\* took the handle followed by two more stops.
C9_Witness ==
    /\ Len(stopLog) = 4
    /\ stopLog[1].handle = None /\ stopLog[1].spawnedAt = 0
    /\ stopLog[2].handle # None
    /\ stopLog[3].handle = None /\ stopLog[3].spawnedAt = stopLog[2].spawnedAt
    /\ stopLog[4].handle = None /\ stopLog[4].spawnedAt = stopLog[2].spawnedAt
    /\ \A i \in {1, 3, 4} : stopLog[i].result = "Ok"

\* C10: stop called twice in a row on a manager holding a live child
\* returns success both times, and the child is not alive after either
\* call, whichever of the graceful request and the kill succeeds or fails.
C10_StopTwiceOkAndDead ==
    \A i \in 1..Len(stopLog) :
        (stopLog[i].handle # None /\ stopLog[i].handle[1] \in stopLog[i].aliveBefore)
          => /\ stopLog[i].result = "Ok"
             /\ stopLog[i].handle[1] \notin stopLog[i].liveAfter
             /\ StoppedAgain(i) =>
                  /\ stopLog[i + 1].result = "Ok"
                  /\ stopLog[i].handle[1] \notin stopLog[i + 1].liveAfter

(***************************************************************************)
(* Claims about one start_services run                                     *)
(***************************************************************************)

\* Run `run` has emitted the event `name`.
Emitted(run, name) ==
    \E i \in 1..Len(events[run]) : events[run][i].name = name

\* The ports run `run` has emitted with the event `name`.
EventPorts(run, name) ==
    {events[run][i].port : i \in {j \in 1..Len(events[run]) :
                                    events[run][j].name = name}}

\* Task t ran start_services_internal and has returned.
Returned(t) == task[t].run # 0 /\ task[t].pc = "done"

\* C11: when the database becomes ready after k failed start attempts
\* followed by a successful one, postgres-ready is emitted and the retry
\* count StartupMetrics records for the database is k (2 when the first two
\* attempts fail).
C11_RetryCountRecorded ==
    \A t \in Tasks :
      (task[t].run # 0 /\ task[t].pc \in {"be_resolve", "be_wait", "complete", "done"}
         /\ startup_metrics.postgres_startup_ms)
        => /\ Emitted(task[t].run, "PostgresReady")
           /\ startup_metrics.postgres_retry_count = task[t].failed

\* The ports of the children of `kind` that `handle` refers to.
HeldPorts(kind, handle) ==
    {c.port : c \in {d \in children : d.kind = kind /\ handle = Some(d.pid)}}

\* `actual` is what start_services should use when `requested` was asked
\* for: the requested port when no other program holds it, else the lowest
\* port above it, within the range searched, that no other program holds.
AlternativeOf(requested, actual) ==
    IF requested \notin env.foreign_ports THEN actual = requested
    ELSE /\ actual \in (requested + 1)..(requested + 10)
         /\ actual \notin env.foreign_ports
         /\ \A p \in (requested + 1)..(actual - 1) : p \in env.foreign_ports

\* C12: a successful run started each service on the requested port, or on
\* the first free port above it when the requested one was occupied; the
\* ports of the service-ready events are the ports the children were
\* started on, and so are the ports of the ServiceConfig written to the
\* cache.
C12_CacheHoldsActualPorts ==
    \A t \in Tasks :
      (Returned(t) /\ task[t].result = "Ok")
        => LET run == task[t].run
               pg  == HeldPorts("postgres", managers[run].process)
               be  == HeldPorts("backend", backend_process)
           IN  /\ Cardinality(pg) = 1
               /\ Cardinality(be) = 1
               /\ EventPorts(run, "PostgresReady") = pg
               /\ EventPorts(run, "BackendReady") = be
               /\ \A q \in EventPorts(run, "PostgresStarting"), a \in pg :
                    AlternativeOf(q, a)
               /\ \A q \in EventPorts(run, "BackendStarting"), a \in be :
                    AlternativeOf(q, a)
               /\ task[t].saved = "Ok"
                    => /\ cacheFile.exists /\ cacheFile.readable
                       /\ cacheFile.json /\ cacheFile.shape
                       /\ {cacheFile.value.postgres_port} = pg
                       /\ {cacheFile.value.backend_port} = be

\* A successful run that found both default ports occupied, started the
\* database three ports higher and the backend one port higher, and cached
\* those ports.
C12_Witness ==
    \E t \in Tasks :
      /\ Returned(t) /\ task[t].result = "Ok" /\ task[t].saved = "Ok"
      /\ EventPorts(task[t].run, "PostgresStarting") = {5433}
      /\ EventPorts(task[t].run, "PostgresReady") = {5436}
      /\ EventPorts(task[t].run, "BackendReady") = {5002}
      /\ cacheFile.value.postgres_port = 5436
      /\ cacheFile.value.backend_port = 5002

\* No backend child exists and no handle of one is held.
NoBackendSpawned ==
    /\ backend_process = None
    /\ \A c \in children : c.kind # "backend"

\* The database run `run` started is running, holds the data directory, and
\* is what AppState calls ready.
DatabaseStillUp(run) ==
    /\ is_postgres_ready
    /\ postgres_manager = Some(run)
    /\ \E c \in children :
         /\ c.kind = "postgres"
         /\ managers[run].process = Some(c.pid)
         /\ dataDirOwner = c.pid

\* The run of task t started the database and returned, on a machine
\* without the backend executable.
BackendMissingRun(t) ==
    /\ Returned(t)
    /\ ~env.backend_exists
    /\ Emitted(task[t].run, "PostgresReady")

\* C13 as stated: without the backend executable the run fails with the
\* executable-not-found error, no backend child is spawned, and the
\* database started earlier stays running and ready.
C13_BackendMissingFailsNotFound ==
    \A t \in Tasks :
      BackendMissingRun(t)
        => /\ task[t].result = "Err"
           /\ task[t].error = "BackendNotFound"
           /\ NoBackendSpawned
           /\ DatabaseStillUp(task[t].run)

\* C13, amended: without the backend executable the run fails, with the
\* executable-not-found error when a backend port could be had and with the
\* port error when the requested backend port and the ten above it are all
\* occupied (the port is settled before the executable is looked for); no
\* backend child is spawned, and the database started earlier stays running
\* and ready.
C13_BackendMissingFailsBeforeSpawn ==
    \A t \in Tasks :
      BackendMissingRun(t)
        => /\ task[t].result = "Err"
           /\ \A q \in EventPorts(task[t].run, "BackendStarting") :
                task[t].error =
                  IF \A p \in q..(q + 10) : p \in env.foreign_ports
                    THEN "PortInUse" ELSE "BackendNotFound"
           /\ NoBackendSpawned
           /\ DatabaseStillUp(task[t].run)

\* A run that failed for want of the backend executable after the database
\* needed a retry.
C13_Witness ==
    \E t \in Tasks :
      /\ BackendMissingRun(t)
      /\ task[t].error = "BackendNotFound"
      /\ task[t].failed > 0

\* The events of run `run`, in the order emitted.
EventsOf(run) == events[run]

\* C15: a run whose service failed terminally emitted that service's failed
\* event and then startup-failed (and nothing after), recorded the failure
\* in StartupMetrics, returned the error, emitted no all-ready, and, when
\* the database was the one that failed, never started the backend.
C15_FailureReported ==
    \A t \in Tasks :
      (Returned(t) /\ task[t].result = "Err")
        => LET run  == task[t].run
               mine == EventsOf(run)
               n    == Len(mine)
           IN  /\ n >= 2
               /\ mine[n].name = "StartupFailed"
               /\ mine[n - 1].name =
                    IF Emitted(run, "PostgresReady") THEN "BackendFailed"
                    ELSE "PostgresFailed"
               /\ \A i \in 1..(n - 2) :
                    mine[i].name \notin {"PostgresFailed", "BackendFailed",
                                         "StartupFailed", "AllServicesReady"}
               /\ ~startup_metrics.success
               /\ task[t].error # "none"
               /\ startup_metrics.error = Some(task[t].error)
               /\ ~Emitted(run, "PostgresReady")
                    => /\ ~Emitted(run, "BackendStarting")
                       /\ NoBackendSpawned

\* A run in which the database failed every attempt the policy allows.
C15_Witness ==
    \E t \in Tasks :
      /\ Returned(t) /\ task[t].result = "Err" /\ task[t].error = "Timeout"
      /\ Emitted(task[t].run, "PostgresFailed")
      /\ task[t].failed = PostgresStartupConfig.max_attempts + 1

\* C17: the cache file differs from what the run loaded only after both
\* services reported ready in that run; a run that failed left it as it was.
C17_CacheOnlyAfterBothReady ==
    \A t \in Tasks :
      task[t].run # 0
        => /\ cacheFile # task[t].loadedFrom
                => /\ Emitted(task[t].run, "PostgresReady")
                   /\ Emitted(task[t].run, "BackendReady")
                   /\ is_postgres_ready
                   /\ is_backend_ready
           /\ task[t].result = "Err" => cacheFile = task[t].loadedFrom

\* A run that moved the database to another port for a conflict, then
\* failed on the backend, with a cache file holding other ports.
C17_Witness ==
    \E t \in Tasks :
      /\ Returned(t) /\ task[t].result = "Err"
      /\ Emitted(task[t].run, "PortConflict")
      /\ Emitted(task[t].run, "BackendFailed")
      /\ cacheFile.exists /\ cacheFile.shape
      /\ cacheFile.value.postgres_port # postgres_port

\* What the claim says load returns for a cache file: the stored
\* configuration when the file is there, can be read, holds a ServiceConfig
\* and has schema_version 1; the defaults in every other case.
ExpectedConfig(file) ==
    IF /\ file.exists /\ file.readable /\ file.json /\ file.shape
       /\ file.value.schema_version = 1
      THEN file.value
      ELSE [postgres_port |-> 5433, backend_port |-> 5001,
            last_successful_startup |-> <<>>, schema_version |-> 1]

\* C18: ServiceConfig::load always returns a configuration: the defaults
\* (5433, 5001, no timestamp, schema_version 1) when the cache file is
\* missing, unreadable, not a ServiceConfig in JSON, or of another
\* schema_version, and the stored configuration otherwise.
C18_LoadDefaultsOrStored ==
    \A t \in Tasks :
      task[t].run # 0 => service_config = Some(ExpectedConfig(task[t].loadedFrom))

\* A run that loaded a well-formed file of schema_version 2 with other
\* ports and got the defaults.
C18_Witness ==
    \E t \in Tasks :
      /\ task[t].run # 0
      /\ task[t].loadedFrom.shape
      /\ task[t].loadedFrom.value.schema_version = 2
      /\ task[t].loadedFrom.value.postgres_port # 5433
      /\ service_config # None
      /\ service_config[1].postgres_port = 5433

\* C19: when both services are ready and the write of the cache fails,
\* start_services has still returned success, emitted all-ready and set
\* StartupMetrics.success.
C19_SaveIsBestEffort ==
    \A t \in Tasks :
      (Returned(t) /\ task[t].saved = "Err")
        => /\ task[t].result = "Ok"
           /\ Emitted(task[t].run, "AllServicesReady")
           /\ Emitted(task[t].run, "PostgresReady")
           /\ Emitted(task[t].run, "BackendReady")
           /\ startup_metrics.success
           /\ cacheFile = task[t].loadedFrom

\* A run whose save failed.
C19_Witness ==
    \E t \in Tasks :
      /\ Returned(t) /\ task[t].saved = "Err"
      /\ is_postgres_ready /\ is_backend_ready

BackendSpawned == \E c \in children' \ children : c.kind = "backend"

\* Within run `run`, backend-starting comes only after postgres-ready.
BackendStartsAfterDatabaseReady(run) ==
    \A i \in 1..Len(events[run]) :
        events[run][i].name = "BackendStarting" =>
            \E j \in 1..(i - 1) : events[run][j].name = "PostgresReady"

\* C14: under any interleaving of start_services, restart_backend and
\* restart_database, a backend child is spawned only while is_postgres_ready
\* is true, and within one start_services run backend-starting is emitted
\* only after postgres-ready.
C14_BackendOnlyAfterDatabaseReady ==
    /\ [][BackendSpawned => is_postgres_ready]_vars
    /\ [](\A run \in 1..MaxRuns : BackendStartsAfterDatabaseReady(run))

\* C16: shutdown_services runs exactly once in the life of the process,
\* whatever events trigger it: never a second time, and once by the time the
\* process has exited.
C16_ShutdownExactlyOnce ==
    /\ Len(shutdowns) <= 1
    /\ Phase = "exited" => Len(shutdowns) = 1


\* C21: once shutdown_services has returned, no database or backend child
\* spawned by the orchestrator is alive, and none is spawned afterwards,
\* also when it ran while the startup task was still starting a service.
C21_TeardownLeaksNoProcess == shutdowns # <<>> => children = {}


(***************************************************************************)
(* Claims about the order of events, of shutdown and of stop               *)
(***************************************************************************)

\* The events of a successful run, in order.
Milestones ==
    << "PostgresStarting", "PostgresReady", "BackendStarting", "BackendReady",
       "AllServicesReady" >>

IsMilestone(e) == \E i \in 1..Len(Milestones) : Milestones[i] = e.name

\* The milestones run `run` has emitted, in the order of emission.
MilestonesOf(run) ==
    LET es == SelectSeq(events[run], IsMilestone)
    IN  [i \in 1..Len(es) |-> es[i].name]

LastOps == IF shutdowns = <<>> THEN <<>> ELSE shutdowns[Len(shutdowns)].ops

C24_KillOnlyAfterFailedRequest ==
    \A i \in 1..Len(LastOps) :
        LastOps[i].op = "kill" =>
            /\ \E j \in 1..(i - 1) :
                 LastOps[j] = Op(LastOps[i].svc, "request", FALSE)
            /\ \A j \in 1..(i - 1) :
                 LastOps[j] # Op(LastOps[i].svc, "request", TRUE)


(***************************************************************************)
(* Claims about failed attempts, the readiness waits and start_with_retry  *)
(***************************************************************************)

\* The children of service `kind` still running.
ChildrenOf(kind) == {c \in children : c.kind = kind}

\* The errors of a start given up at spawn or at a readiness timeout, and
\* the service they belong to.
AttemptErrors == {"Timeout", "SpawnFailed", "BackendTimeout"}

ServiceOf(error) == IF error = "Timeout" THEN "postgres" ELSE "backend"

\* C25: the child of a start attempt that failed at spawn or at the
\* readiness timeout is gone before the next attempt and before the failure
\* is reported: each service has at most one child alive, none when its
\* next spawn is about to be made, and none once its start has returned
\* such an error.
C25_FailedAttemptLeavesNoChild ==
    LET t == "startup"
    IN  /\ \A kind \in {"postgres", "backend"} : Cardinality(ChildrenOf(kind)) <= 1
        /\ task[t].pc = "pg_spawn" => ChildrenOf("postgres") = {}
        /\ (Returned(t) /\ task[t].error \in AttemptErrors)
             => ChildrenOf(ServiceOf(task[t].error)) = {}

\* C28: a readiness timeout surfaces as the failure of the run only after
\* it was retried locally: the database's once the backoff of
\* start_with_retry has handed out all its delays, the backend's once the
\* backend was spawned again at least once.
C28_TimeoutRetriedBeforeSurfacing ==
    LET t == "startup"
    IN  /\ (Returned(t) /\ task[t].error = "Timeout")
             => task[t].attempt = PostgresStartupConfig.max_attempts
        /\ (Returned(t) /\ task[t].error = "BackendTimeout")
             => task[t].be_spawns > 1

\* C30: when start_with_retry gives up "after N attempts", N being
\* max_attempts, exactly N spawn attempts were made in the call.
C30_GivesUpAfterMaxAttemptsSpawns ==
    LET t == "startup"
    IN  (Returned(t) /\ task[t].error = "Timeout")
          => task[t].spawns = PostgresStartupConfig.max_attempts

IntervalPolicy(kind) ==
    IF kind = "database"
      THEN [initial |-> PostgresStartupConfig.initial_delay_ms,
            max     |-> PostgresStartupConfig.max_delay_ms,
            mult    |-> PostgresStartupConfig.backoff_multiplier]
      ELSE [initial |-> HealthCheckConfig_default.initial_interval_ms,
            max     |-> HealthCheckConfig_default.max_interval_ms,
            mult    |-> HealthCheckConfig_default.backoff_multiplier]

\* C27: the interval between the probes of a wait grows under the backoff
\* policy: the first sleep is the initial interval, each later one the
\* sleep before it times the multiplier, capped at the maximum.
C27_ProbeIntervalGrows ==
    [][(wait.pc = "probing" /\ wait'.sleeps = wait.sleeps + 1) =>
         LET p == IntervalPolicy(wait.kind)
         IN  wait'.slept = IF wait.sleeps = 0 THEN p.initial
                           ELSE Min((wait.slept * p.mult[1]) \div p.mult[2], p.max)]_vars

\* C29: start on a PostgresManager whose init_database has not succeeded
\* returns NotInitialized and does nothing else: no child is spawned, the
\* manager keeps its port whatever holds that port, the socket table is
\* as it was, and the backoff has counted no attempt.
C29_StartRequiresInitialization ==
    [][(task["startup"].pc = "pg_start"
          /\ ~managers[task["startup"].run].initialized) =>
         /\ task'["startup"].pc = "done"
         /\ task'["startup"].result = "Err"
         /\ task'["startup"].error = "NotInitialized"
         /\ children' = children
         /\ managers' = managers
         /\ inUse' = inUse
         /\ task'["startup"].spawns = 0
         /\ task'["startup"].attempt = 0
         /\ task'["startup"].polls = 0]_vars

\* The refusal on a machine where the manager's port is taken.
C29_Witness ==
    /\ task["startup"].error = "NotInitialized"
    /\ DefaultPostgresPort \in env.foreign_ports
    /\ children = {}


(***************************************************************************)
(* Claims about a database already running, port conflicts and overlapping *)
(* runs                                                                    *)
(***************************************************************************)

\* Task t is about to call start_with_retry on an initialized manager while
\* a database accepts connections on that manager's configured port.
StartsOnRunningDatabase(t) ==
    /\ task[t].pc = "pg_start"
    /\ managers[task[t].run].initialized
    /\ is_running(managers[task[t].run].port)

\* C31: start_with_retry called while the database already runs and accepts
\* connections on the manager's configured port returns success with that
\* port: the manager goes on to be stored, no child is spawned now or later
\* in the call, and the configured port stays what it was.
C31_RunningDatabaseIsReused ==
    [][\A t \in Tasks :
         StartsOnRunningDatabase(t) /\ task'[t] # task[t] =>
             /\ task'[t].pc = "pg_store"
             /\ children' = children
             /\ managers'[task[t].run].port = managers[task[t].run].port]_vars


\* The ports of the range searched above `port` that can be bound.
FreeAbove(port) == {p \in (port + 1)..(port + 10) : is_port_available(p)}

\* Task t takes the step `pc` of its run while the port `port` it wants for
\* the service cannot be bound.
ConflictStep(t, pc, port) ==
    /\ task[t].pc = pc
    /\ task'[t] # task[t]
    /\ ~is_port_available(port)

\* The step ends task t's run with the port conflict error after
\* port-conflict for `port`, the service's failure event and startup-failed;
\* no child is spawned, none is stopped.
AbortsOnConflict(t, port, failed) ==
    /\ task'[t].pc = "done"
    /\ task'[t].result = "Err"
    /\ task'[t].error = "PortInUse"
    /\ events'[task[t].run] =
         events[task[t].run] \o << Ev(task[t].run, "PortConflict", port),
                                   Ev(task[t].run, failed, task[t].port),
                                   Ev(task[t].run, "StartupFailed", 0) >>
    /\ children' = children

\* C32: when the port wanted for a service is in use and none of the next
\* 10 ports is available, the run emits port-conflict and ends with the
\* port conflict error, spawning nothing and leaving the children started
\* earlier running; when one is available, port-conflict is emitted and the
\* service gets a port p with desired < p <= desired + 10 that can be
\* bound, and every child of the service spawned from then on is started
\* on the port the orchestrator holds for it.
C32_ConflictAbortsOrMovesWithinRange ==
    [][/\ \A t \in Tasks :
            /\ ConflictStep(t, "pg_resolve", postgres_port) =>
                 IF FreeAbove(postgres_port) = {}
                   THEN AbortsOnConflict(t, postgres_port, "PostgresFailed")
                   ELSE /\ postgres_port' \in FreeAbove(postgres_port)
                        /\ Ev(task[t].run, "PortConflict", postgres_port)
                             \in {events'[task[t].run][i] :
                                    i \in 1..Len(events'[task[t].run])}
            /\ ConflictStep(t, "be_resolve", backend_port) =>
                 IF FreeAbove(backend_port) = {}
                   THEN AbortsOnConflict(t, backend_port, "BackendFailed")
                   ELSE /\ backend_port' \in FreeAbove(backend_port)
                        /\ Ev(task[t].run, "PortConflict", backend_port)
                             \in {events'[task[t].run][i] :
                                    i \in 1..Len(events'[task[t].run])}
       /\ \A c \in children' \ children :
            /\ c.kind = "postgres" => c.port = postgres_port'
            /\ c.kind = "backend" => c.port = backend_port']_vars

\* A run that found the database's port occupied and started the database
\* three ports higher, then found the backend's port and the ten above it
\* occupied and ended with the port conflict error, the database running.
C32_Witness ==
    \E t \in Tasks :
      /\ Returned(t) /\ task[t].error = "PortInUse"
      /\ Emitted(task[t].run, "BackendFailed")
      /\ EventPorts(task[t].run, "PortConflict") = {5433, 5001}
      /\ \E c \in children : c.kind = "postgres" /\ c.port = 5436


(***************************************************************************)
(* Claims about the mutexes                                                *)
(***************************************************************************)

\* The mutexes thread th holds.
HeldBy(th) == {l \in Locks : held[l] = th}

\* Thread th is in a readiness polling loop or in a backoff sleep.
Waiting(th) == Running(th) /\ At(th).op \in {"poll", "sleep"}

\* Thread th is at a lock() of a mutex somebody holds.
Blocked(th) ==
    Running(th) /\ At(th).op \in {"lock", "brief"} /\ held[At(th).lock] # "free"

\* The mutexes the status queries take.
StatusLocks ==
    {"is_postgres_ready", "is_backend_ready", "postgres_port", "backend_port",
     "startup_metrics"}

\* C33: no thread holds a mutex of AppState or of PostgresManager while it
\* is in a readiness polling loop or a backoff sleep; the mutexes a status
\* query takes are taken only by statements that drop the guard at once,
\* so a status query is never kept waiting, whatever the startup is doing;
\* and
\* the threads of startup, restart, shutdown and status queries never
\* deadlock: while some thread runs, some running thread can take a step.
C33_NoLockAcrossWaits ==
    /\ \A th \in Threads : Waiting(th) => HeldBy(th) = {}
    /\ \A th \in Threads :
         Running(th) /\ At(th).lock \in StatusLocks => At(th).op = "brief"
    /\ \A l \in StatusLocks : held[l] = "free"
    /\ ~Blocked("query")
    /\ (\E th \in Threads : Running(th))
         => \E th \in Threads : Running(th) /\ ~Blocked(th)

\* The startup task polls for readiness and the restart command stops the
\* stored manager under the guard of postgres_manager while a status
\* query has returned and shutdown_services waits for a mutex.
C33_Witness ==
    /\ Waiting("startup")
    /\ held["postgres_manager"] = "command"
    /\ thread["query"].prog = "get_database_status"
    /\ Blocked("shutdown")


(***************************************************************************)
(* Claims about a stop that meets a readiness wait                         *)
(***************************************************************************)

\* The wait that followed spawn number n of task t reported Ready:
\* start_with_retry went on to setup_database.
ReportedReady(t, n) ==
    /\ task[t].spawns = n
    /\ \/ task[t].pc \in {"pg_setup", "pg_store"}
       \/ task[t].pc = "done" /\ task[t].error = "StartFailed"

\* C34: a stop called on a manager while its readiness wait is under way
\* returns success, and that wait does not report Ready afterwards.
C34_StopDuringWaitFailsTheWait ==
    \A i \in 1..Len(stopLog) :
      /\ stopLog[i].result = "Ok"
      /\ ~ReportedReady("startup", stopLog[i].spawnedAt)


(***************************************************************************)
(* Claims about the arithmetic of the port conflict handling               *)
(***************************************************************************)

\* The last call was a port conflict handling, the orchestrator's or the
\* manager's, for a port somebody listens on.
ConflictHandled ==
    /\ portCall.op \in {"resolve_conflict", "ensure_port_available"}
    /\ portCall.port \in inUse

\* C35: for every wanted port in 0..65535 that is in use, 65535 included,
\* the port conflict handling of the orchestrator and ensure_port_available
\* end without a panic, either with the port conflict error or with a port
\* p, wanted < p <= 65535: never port 0, never a port below the wanted one
\* that came out of a wrapped sum.
C35_ConflictArithmeticInRange ==
    ConflictHandled =>
        \/ portCall.status = "Err"
        \/ /\ portCall.status = "Ok"
           /\ portCall.result # None
           /\ portCall.port < portCall.result[1]
           /\ portCall.result[1] <= PortMax


(***************************************************************************)
(* Claims about runs that follow or overlap another run                    *)
(***************************************************************************)

\* The database children the manager of run `run` holds the handle of.
DatabaseOf(run) ==
    {c \in children : c.kind = "postgres" /\ managers[run].process = Some(c.pid)}

\* C36: when a run stores its manager in AppState and sets
\* is_postgres_ready, the database it started stays alive: the drop of the
\* manager stored before, which runs stop on the same data directory, does
\* not stop it.
C36_StoreKeepsNewDatabaseAlive ==
    [][\A t \in Tasks :
         (task[t].pc = "pg_store" /\ task'[t] # task[t])
           => \A c \in DatabaseOf(task[t].run) : c \in children']_vars


\* C37: every live backend child is the one AppState.backend_process
\* refers to, so at most one backend child is alive and none is orphaned,
\* under every interleaving of start_services, restart_backend and
\* restart_database.
C37_BackendChildIsTheStoredOne ==
    \A c \in children : c.kind = "backend" => backend_process = Some(c.pid)


(***************************************************************************)
(* Claims about the ports taken over from the cache file                   *)
(***************************************************************************)

\* C38: whatever the cache file holds, the ports a run has taken over from
\* ServiceConfig::load are neither 0 nor reserved: both of AppState's ports
\* are at least 1024 once the run has begun.
C38_AdoptedPortsUsable ==
    \A t \in Tasks :
      task[t].run # 0 =>
          /\ postgres_port >= ReservedLimit
          /\ backend_port >= ReservedLimit


\* The step in which a start_services run of task t returns.
RunFinishes(t) ==
    /\ task[t].pc # "done"
    /\ task'[t].pc = "done"
    /\ task'[t].run # 0
    /\ task'[t].op \in {"start_services", "restart_database"}

\* The metrics say a whole successful run: no error, every duration and
\* both ports set.
MetricsComplete(m) ==
    /\ m.error = None
    /\ m.postgres_startup_ms /\ m.backend_startup_ms /\ m.total_startup_ms
    /\ m.postgres_port # None /\ m.backend_port # None

\* C39: when a run has finished, the metrics say success exactly if that
\* run emitted all-ready, and metrics that say success have no error and
\* hold the durations of the database, of the backend and of the whole run
\* and both ports; also when runs overlap.
C39_MetricsMatchTheRun ==
    [][\A t \in Tasks :
         RunFinishes(t) =>
           /\ startup_metrics'.success
                <=> \E i \in 1..Len(events'[task'[t].run]) :
                      events'[task'[t].run][i].name = "AllServicesReady"
           /\ startup_metrics'.success => MetricsComplete(startup_metrics')]_vars


(***************************************************************************)
(* Claims about what a readiness wait reports                              *)
(***************************************************************************)

\* C40: a readiness wait, the database's and the backend's, reports Ready
\* only after a probe of that wait has succeeded: a wait that ended with
\* success has made at least one probe, also where the probe tool is not
\* installed.
C40_ReadyOnlyAfterProbeSuccess ==
    (wait.pc = "done" /\ wait.result = "Ok") => wait.probes >= 1

====
